---- MODULE Spec2Model ----
(***************************************************************************)
(* The session-buffering pipeline of backend/app/services/                 *)
(* streaming_service.py: the per-connection receive loops, the handlers    *)
(* they dispatch to, the flush (_process_buffered_audio), the on-demand    *)
(* transcription request and the silence watchdog, as asyncio tasks that   *)
(* interleave only at their await points.                                  *)
(*                                                                         *)
(* Units.  Time is in milliseconds and advances in steps of the watchdog's *)
(* sleep (500 ms).  Audio is counted in bytes: a bytes object is a         *)
(* sequence of runs [nbytes], a run standing for the nbytes bytes of one    *)
(* speech chunk as process_audio_chunk returned it.                        *)
(* None is 0: time.time() is never 0, and the code tests last_speech_time  *)
(* by truthiness.                                                          *)
(*                                                                         *)
(* Atomicity.  A step of a task runs from one suspension to the next.      *)
(* The suspensions are websocket.receive_text, the collaborator calls      *)
(* (transcribe_audio, generate_response, synthesize_speech) and the        *)
(* watchdog's sleep.  websocket.send_text is taken with the step that      *)
(* issues it: it either delivers the envelope or raises, and nothing of    *)
(* the service's state is written between its start and its end.           *)
(* Fields of a connection that no code reads (session_id, room_id,         *)
(* last_activity, is_active) are left out.                                 *)
(*                                                                         *)
(* Observation.  The variable events holds what the last step did, in      *)
(* order: the chunks it appended, the blobs it drained (and whether it     *)
(* handed them to the transcription collaborator) and the envelopes it     *)
(* delivered to a transport.                                               *)
(***************************************************************************)
EXTENDS Integers, Sequences, FiniteSets, TLC

\* ------------------------------------------------------------------ bounds
\* connection ids handed out (uuid4: never reused)
MaxConn == 2
\* speech chunks a session's buffer holds
MaxChunks == 2
\* clock ticks of 500 ms
MaxTicks == 4
\* chunks handed to the classifier on its own
MaxCalls == 2
\* chunks the sessions hand to the one classifier they share
MaxShared == 10
\* chunks handed to a classifier that has been running for a while
MaxNoiseCalls == 3
\* chunks the sessions send through the classifier into their buffers
MaxClassified == 3

\* ------------------------------------------------------- program constants
None == 0
sample_rate == 16000
vad_frame_duration_ms == 20
sample_width == 2
speech_timeout == 1500
min_audio_duration == 150
max_buffer_duration == 10000
silence_check_interval == 500
max_noise_samples == 100
max_frames == 100
\* adaptive_threshold_multiplier 2.5 and vad_speech_threshold 0.5, as fractions
adaptive_threshold_num == 5
adaptive_threshold_den == 2
speech_threshold_num == 1
speech_threshold_den == 2

\* 20 ms sub-frames in the audio process_audio_chunk returns for a speech
\* chunk: 5 (a 100 ms chunk, config chunk_duration_ms) or 495 (9.9 s)
FrameCounts == {5, 495}

\* what an audio_chunk message is to handle_audio_chunk: no audio_data, or
\* audio that process_audio_chunk classifies, returning has_speech and, for
\* speech, the sub-frames it kept
ChunkInputs ==
    {[has_data |-> FALSE, has_speech |-> FALSE, frames |-> 0],
     [has_data |-> TRUE, has_speech |-> FALSE, frames |-> 0]}
    \cup {[has_data |-> TRUE, has_speech |-> TRUE, frames |-> f] : f \in FrameCounts}

ConnIds == 1..MaxConn

\* websocket.client_state.name, as the code reads it: the websocket belongs to
\* the framework, and each read may find the peer gone
ClientStates == {"CONNECTED", "DISCONNECTED"}

\* ------------------------------------------------------------------- state
VARIABLES
    active_connections,    \* dict id -> connection state
    active_keys,           \* its keys in insertion order (dict iteration order)
    websocket_connections, \* dict id -> websocket, as the set of its keys
    pc,                    \* where each connection's receive task stands
    inflight,              \* the blob the receive task's collaborator call holds
    wd,                    \* the watchdog task
    now,                   \* time.time(), ms
    events,                \* what the last step appended, drained and sent
    audio_service,         \* the AudioService singleton (classifier state)
    classified,            \* the last call of process_audio_chunk
    broadcast,             \* a task running broadcast_message
    own_service,           \* per session: an AudioService fed its chunks alone
    converted              \* the last buffer read as int16 samples

vars == <<active_connections, active_keys, websocket_connections,
          pc, inflight, wd, now, events, audio_service, classified, broadcast, own_service, converted>>

\* ----------------------------------------------------------------- helpers
Remove(f, k) == [x \in DOMAIN f \ {k} |-> f[x]]

Put(f, k, v) == [x \in DOMAIN f \cup {k} |-> IF x = k THEN v ELSE f[x]]

RECURSIVE SeqRemove(_, _)
SeqRemove(q, k) ==
    IF q = <<>> THEN <<>>
    ELSE IF Head(q) = k THEN SeqRemove(Tail(q), k)
    ELSE <<Head(q)>> \o SeqRemove(Tail(q), k)

\* b"".join(chunks)
RECURSIVE Join(_)
Join(chunks) ==
    IF chunks = <<>> THEN <<>> ELSE Head(chunks) \o Join(Tail(chunks))

\* len(audio)
RECURSIVE ByteLen(_)
ByteLen(audio) ==
    IF audio = <<>> THEN 0 ELSE Head(audio).nbytes + ByteLen(Tail(audio))

\* AudioService.get_audio_duration: pad an odd length by one byte, read the
\* bytes as int16 samples, samples / sample_rate * 1000 (ms)
get_audio_duration(audio) ==
    LET n == ByteLen(audio)
        padded == IF n % 2 # 0 THEN n + 1 ELSE n
        samples == padded \div sample_width
    IN  (samples * 1000) \div sample_rate

\* the bytes process_audio_chunk returns for a speech chunk of `frames`
\* sub-frames: frames * frame_size int16 samples
processed_audio(frames) ==
    LET frame_size == (sample_rate * vad_frame_duration_ms) \div 1000
    IN  <<[nbytes |-> frames * frame_size * sample_width]>>

\* the chunks session c has buffered in the dictionary ac (none when absent)
BufferOf(ac, c) == IF c \in DOMAIN ac THEN ac[c].audio_buffer ELSE <<>>

NoCall == [conn |-> 0, audio |-> <<>>]

\* what a step does to a session: ev is "append" (audio: the chunk), "drain"
\* (audio: the blob; tag: the caller; flag: handed to transcribe_audio),
\* "send" (tag: the envelope's type; flag: its success field) or "discard"
\* (audio: what the buffer held when the session was deregistered)
Event(ev, conn, audio, tag, flag) ==
    [ev |-> ev, conn |-> conn, audio |-> audio, tag |-> tag, flag |-> flag]

\* the service's dictionaries at the start of a step, which has done nothing yet
Service == [ac |-> active_connections, keys |-> active_keys,
            ws |-> websocket_connections, out |-> <<>>]

\* the removal with the second del left out: the websocket goes, the
\* connection state stays
deregister_websocket_only(s, id) ==
    [s EXCEPT !.ws = @ \ {id}]

\* del websocket_connections[id]; del active_connections[id] (each if present);
\* audio the session still had buffered goes with its entry ("discard")
deregister(s, id) ==
    [s EXCEPT !.ws = @ \ {id},
              !.ac = Remove(@, id),
              !.keys = SeqRemove(@, id),
              !.out = IF id \in DOMAIN s.ac /\ s.ac[id].audio_buffer # <<>>
                      THEN Append(@, Event("discard", id,
                                           Join(s.ac[id].audio_buffer), "teardown", FALSE))
                      ELSE @]

\* ------------------------------------------------------ service operations
\* handle_websocket_connection, lines 147-158: the state of a new connection
new_connection ==
    [audio_buffer |-> <<>>,
     last_speech_time |-> None,
     speech_timeout |-> speech_timeout,
     min_audio_duration |-> min_audio_duration,
     max_buffer_duration |-> max_buffer_duration]

\* send_websocket_message with the test of line 548 left out: the envelope is
\* sent whether or not the id has a websocket
send_websocket_message_unchecked(s, id, envelope, cs, ok) ==
    IF cs = "DISCONNECTED" THEN deregister(s, id)
    ELSE IF ok THEN [s EXCEPT !.out = Append(@,
                        Event("send", id, <<>>, envelope.type, envelope.success))]
    ELSE deregister(s, id)

\* send_websocket_message with lines 557-558 and 567-568 left out: a failed
\* send deletes the websocket and keeps the connection state
send_websocket_message_half_cleanup(s, id, envelope, cs, ok) ==
    IF id \in s.ws
    THEN IF cs = "DISCONNECTED" THEN [s EXCEPT !.ws = @ \ {id}]
         ELSE IF ok THEN [s EXCEPT !.out = Append(@,
                             Event("send", id, <<>>, envelope.type, envelope.success))]
         ELSE [s EXCEPT !.ws = @ \ {id}]
    ELSE s

\* send_websocket_message: nothing for an id without a websocket; a websocket
\* found DISCONNECTED, or whose send_text raises (ok = FALSE), is deregistered
send_websocket_message(s, id, envelope, cs, ok) ==
    IF id \in s.ws
    THEN IF cs = "DISCONNECTED" THEN deregister(s, id)
         ELSE IF ok THEN [s EXCEPT !.out = Append(@,
                             Event("send", id, <<>>, envelope.type, envelope.success))]
         ELSE deregister(s, id)
    ELSE s

\* handle_transcription_request with line 418 left out: the on-demand path
\* joins the buffer and keeps it
handle_transcription_request_keeps_buffer(s, id, valid, pre) ==
    IF id \notin DOMAIN s.ac THEN [s |-> s, call |-> NoCall]
    ELSE IF pre # <<>>
    THEN [s |-> s,
          call |-> IF valid THEN [conn |-> id, audio |-> pre] ELSE NoCall]
    ELSE LET audio_buffer == s.ac[id].audio_buffer
             combined_audio == Join(audio_buffer)
         IN  IF audio_buffer = <<>> THEN [s |-> s, call |-> NoCall]
             ELSE [s |-> [s EXCEPT !.out = Append(@,
                             Event("drain", id, combined_audio, "request", valid))],
                   call |-> IF valid THEN [conn |-> id, audio |-> combined_audio]
                            ELSE NoCall]

\* handle_transcription_request up to its await of transcribe_audio.  `pre` is
\* pre_combined_audio (<<>> when absent); `valid` tells whether
\* TranscriptionRequest(...) accepts the language and prompt of the message
\* (a validation error is caught by the handler's except).  The result is the
\* service's state and the collaborator call now pending, if any.
handle_transcription_request(s, id, valid, pre) ==
    IF id \notin DOMAIN s.ac THEN [s |-> s, call |-> NoCall]
    ELSE IF pre # <<>>
    THEN [s |-> s,
          call |-> IF valid THEN [conn |-> id, audio |-> pre] ELSE NoCall]
    ELSE LET audio_buffer == s.ac[id].audio_buffer
             combined_audio == Join(audio_buffer)
         IN  IF audio_buffer = <<>> THEN [s |-> s, call |-> NoCall]
             ELSE [s |-> [s EXCEPT !.ac[id].audio_buffer = <<>>,
                                   !.out = Append(@,
                                       Event("drain", id, combined_audio, "request", valid))],
                   call |-> IF valid THEN [conn |-> id, audio |-> combined_audio]
                            ELSE NoCall]

\* _process_buffered_audio with line 382 left out: a forwarded flush clears
\* the buffer and keeps last_speech_time
process_buffered_audio_keeps_timestamp(s, id, by) ==
    IF id \notin DOMAIN s.ac THEN [s |-> s, call |-> NoCall]
    ELSE LET connection == s.ac[id]
             audio_buffer == connection.audio_buffer
             combined_audio == Join(audio_buffer)
             duration_ms == get_audio_duration(combined_audio)
         IN  IF audio_buffer = <<>> THEN [s |-> s, call |-> NoCall]
             ELSE IF duration_ms < connection.min_audio_duration
             THEN [s |-> [s EXCEPT !.ac[id].audio_buffer = <<>>,
                                   !.ac[id].last_speech_time = None,
                                   !.out = Append(@,
                                       Event("drain", id, combined_audio, by, FALSE))],
                   call |-> NoCall]
             ELSE handle_transcription_request(
                      [s EXCEPT !.ac[id].audio_buffer = <<>>,
                                !.out = Append(@,
                                    Event("drain", id, combined_audio, by, TRUE))],
                      id, TRUE, combined_audio)

\* _process_buffered_audio with lines 362-363 left out: an empty buffer is
\* joined and, being shorter than min_audio_duration, discarded
process_buffered_audio_no_empty_check(s, id, by) ==
    IF id \notin DOMAIN s.ac THEN [s |-> s, call |-> NoCall]
    ELSE LET connection == s.ac[id]
             combined_audio == Join(connection.audio_buffer)
             duration_ms == get_audio_duration(combined_audio)
             cleared == [s EXCEPT !.ac[id].audio_buffer = <<>>,
                                  !.ac[id].last_speech_time = None]
         IN  IF duration_ms < connection.min_audio_duration
             THEN [s |-> [cleared EXCEPT !.out = Append(@,
                             Event("drain", id, combined_audio, by, FALSE))],
                   call |-> NoCall]
             ELSE handle_transcription_request(
                      [cleared EXCEPT !.out = Append(@,
                             Event("drain", id, combined_audio, by, TRUE))],
                      id, TRUE, combined_audio)

\* _process_buffered_audio with lines 373-378 left out: every blob is forwarded
process_buffered_audio_forwards_short(s, id, by) ==
    IF id \notin DOMAIN s.ac THEN [s |-> s, call |-> NoCall]
    ELSE LET audio_buffer == s.ac[id].audio_buffer
             combined_audio == Join(audio_buffer)
         IN  IF audio_buffer = <<>> THEN [s |-> s, call |-> NoCall]
             ELSE handle_transcription_request(
                      [s EXCEPT !.ac[id].audio_buffer = <<>>,
                                !.ac[id].last_speech_time = None,
                                !.out = Append(@,
                                    Event("drain", id, combined_audio, by, TRUE))],
                      id, TRUE, combined_audio)

\* _process_buffered_audio clearing nothing before its await: the blob is
\* handed on while the buffer and the timestamp stay as they were
process_buffered_audio_leaves_buffer(s, id, by) ==
    IF id \notin DOMAIN s.ac THEN [s |-> s, call |-> NoCall]
    ELSE LET connection == s.ac[id]
             audio_buffer == connection.audio_buffer
             combined_audio == Join(audio_buffer)
             duration_ms == get_audio_duration(combined_audio)
         IN  IF audio_buffer = <<>> THEN [s |-> s, call |-> NoCall]
             ELSE IF duration_ms < connection.min_audio_duration
             THEN [s |-> [s EXCEPT !.ac[id].audio_buffer = <<>>,
                                   !.ac[id].last_speech_time = None,
                                   !.out = Append(@,
                                       Event("drain", id, combined_audio, by, FALSE))],
                   call |-> NoCall]
             ELSE handle_transcription_request(
                      [s EXCEPT !.out = Append(@,
                             Event("drain", id, combined_audio, by, TRUE))],
                      id, TRUE, combined_audio)

\* _process_buffered_audio up to the await inside handle_transcription_request;
\* `by` names the caller in the drain event
process_buffered_audio(s, id, by) ==
    IF id \notin DOMAIN s.ac THEN [s |-> s, call |-> NoCall]
    ELSE LET connection == s.ac[id]
             audio_buffer == connection.audio_buffer
             combined_audio == Join(audio_buffer)
             duration_ms == get_audio_duration(combined_audio)
             cleared == [s EXCEPT !.ac[id].audio_buffer = <<>>,
                                  !.ac[id].last_speech_time = None]
         IN  IF audio_buffer = <<>> THEN [s |-> s, call |-> NoCall]
             ELSE IF duration_ms < connection.min_audio_duration
             THEN [s |-> [cleared EXCEPT !.out = Append(@,
                             Event("drain", id, combined_audio, by, FALSE))],
                   call |-> NoCall]
             ELSE handle_transcription_request(
                      [cleared EXCEPT !.out = Append(@,
                             Event("drain", id, combined_audio, by, TRUE))],
                      id, TRUE, combined_audio)

\* _check_transcription_trigger flushing only beyond max_buffer_duration
\* (duration_seconds > max_buffer_duration)
check_transcription_trigger_beyond(s, id) ==
    IF id \notin DOMAIN s.ac THEN [s |-> s, call |-> NoCall]
    ELSE LET connection == s.ac[id]
             audio_buffer == connection.audio_buffer
             duration_ms == get_audio_duration(Join(audio_buffer))
         IN  IF audio_buffer = <<>> THEN [s |-> s, call |-> NoCall]
             ELSE IF duration_ms > connection.max_buffer_duration
             THEN process_buffered_audio(s, id, "max_duration")
             ELSE [s |-> s, call |-> NoCall]

\* _check_transcription_trigger: flush when the buffer has reached
\* max_buffer_duration
check_transcription_trigger(s, id) ==
    IF id \notin DOMAIN s.ac THEN [s |-> s, call |-> NoCall]
    ELSE LET connection == s.ac[id]
             audio_buffer == connection.audio_buffer
             duration_ms == get_audio_duration(Join(audio_buffer))
         IN  IF audio_buffer = <<>> THEN [s |-> s, call |-> NoCall]
             ELSE IF duration_ms >= connection.max_buffer_duration
             THEN process_buffered_audio(s, id, "max_duration")
             ELSE [s |-> s, call |-> NoCall]

\* handle_audio_chunk with line 299 putting the chunk at the front of the
\* buffer (audio_buffer.insert(0, ...))
handle_audio_chunk_prepends(s, id, has_data, has_speech, frames, t) ==
    IF ~has_data THEN [s |-> s, call |-> NoCall]
    ELSE IF has_speech
    THEN LET audio == processed_audio(frames)
             s1 == IF id \notin DOMAIN s.ac
                   THEN [s EXCEPT !.ac = Put(@, id, new_connection),
                                  !.keys = Append(@, id)]
                   ELSE s
             s2 == [s1 EXCEPT !.ac[id].audio_buffer = <<audio>> \o @,
                              !.ac[id].last_speech_time = t,
                              !.out = Append(@, Event("append", id, audio, "chunk", TRUE))]
         IN  check_transcription_trigger(s2, id)
    ELSE IF id \in DOMAIN s.ac
    THEN LET last_speech_time == s.ac[id].last_speech_time
         IN  IF last_speech_time # None /\ s.ac[id].audio_buffer # <<>>
                /\ t - last_speech_time >= s.ac[id].speech_timeout
             THEN process_buffered_audio(s, id, "silence")
             ELSE [s |-> s, call |-> NoCall]
    ELSE [s |-> s, call |-> NoCall]

\* handle_audio_chunk with one buffer for the whole service: a speech chunk
\* is appended to the buffer of every registered session
handle_audio_chunk_shared_buffer(s, id, has_data, has_speech, frames, t) ==
    IF ~has_data THEN [s |-> s, call |-> NoCall]
    ELSE IF has_speech
    THEN LET audio == processed_audio(frames)
             s1 == IF id \notin DOMAIN s.ac
                   THEN [s EXCEPT !.ac = Put(@, id, new_connection),
                                  !.keys = Append(@, id)]
                   ELSE s
             s2 == [s1 EXCEPT !.ac = [x \in DOMAIN @ |->
                                         [@[x] EXCEPT !.audio_buffer = Append(@, audio),
                                                      !.last_speech_time = t]],
                              !.out = Append(@, Event("append", id, audio, "chunk", TRUE))]
         IN  check_transcription_trigger(s2, id)
    ELSE IF id \in DOMAIN s.ac
    THEN LET last_speech_time == s.ac[id].last_speech_time
         IN  IF last_speech_time # None /\ s.ac[id].audio_buffer # <<>>
                /\ t - last_speech_time >= s.ac[id].speech_timeout
             THEN process_buffered_audio(s, id, "silence")
             ELSE [s |-> s, call |-> NoCall]
    ELSE [s |-> s, call |-> NoCall]

\* handle_audio_chunk with line 300 left out: a speech chunk is appended and
\* last_speech_time stays as it was
handle_audio_chunk_no_timestamp(s, id, has_data, has_speech, frames, t) ==
    IF ~has_data THEN [s |-> s, call |-> NoCall]
    ELSE IF has_speech
    THEN LET audio == processed_audio(frames)
             s1 == IF id \notin DOMAIN s.ac
                   THEN [s EXCEPT !.ac = Put(@, id, new_connection),
                                  !.keys = Append(@, id)]
                   ELSE s
             s2 == [s1 EXCEPT !.ac[id].audio_buffer = Append(@, audio),
                              !.out = Append(@, Event("append", id, audio, "chunk", TRUE))]
         IN  check_transcription_trigger(s2, id)
    ELSE IF id \in DOMAIN s.ac
    THEN LET last_speech_time == s.ac[id].last_speech_time
         IN  IF last_speech_time # None /\ s.ac[id].audio_buffer # <<>>
                /\ t - last_speech_time >= s.ac[id].speech_timeout
             THEN process_buffered_audio(s, id, "silence")
             ELSE [s |-> s, call |-> NoCall]
    ELSE [s |-> s, call |-> NoCall]

\* handle_audio_chunk taking a chunk without speech for a sign of life: the
\* silence branch sets last_speech_time instead of testing it
handle_audio_chunk_silence_advances(s, id, has_data, has_speech, frames, t) ==
    IF ~has_data THEN [s |-> s, call |-> NoCall]
    ELSE IF has_speech
    THEN LET audio == processed_audio(frames)
             s1 == IF id \notin DOMAIN s.ac
                   THEN [s EXCEPT !.ac = Put(@, id, new_connection),
                                  !.keys = Append(@, id)]
                   ELSE s
             s2 == [s1 EXCEPT !.ac[id].audio_buffer = Append(@, audio),
                              !.ac[id].last_speech_time = t,
                              !.out = Append(@, Event("append", id, audio, "chunk", TRUE))]
         IN  check_transcription_trigger(s2, id)
    ELSE IF id \in DOMAIN s.ac
    THEN [s |-> [s EXCEPT !.ac[id].last_speech_time = t], call |-> NoCall]
    ELSE [s |-> s, call |-> NoCall]

\* handle_audio_chunk.  has_data: the message carries a non-empty audio_data;
\* has_speech and frames: what process_audio_chunk returns for it; t: time.time()
handle_audio_chunk(s, id, has_data, has_speech, frames, t) ==
    IF ~has_data THEN [s |-> s, call |-> NoCall]
    ELSE IF has_speech
    THEN LET audio == processed_audio(frames)
             s1 == IF id \notin DOMAIN s.ac
                   THEN [s EXCEPT !.ac = Put(@, id, new_connection),
                                  !.keys = Append(@, id)]
                   ELSE s
             s2 == [s1 EXCEPT !.ac[id].audio_buffer = Append(@, audio),
                              !.ac[id].last_speech_time = t,
                              !.out = Append(@, Event("append", id, audio, "chunk", TRUE))]
         IN  check_transcription_trigger(s2, id)
    ELSE IF id \in DOMAIN s.ac
    THEN LET last_speech_time == s.ac[id].last_speech_time
         IN  IF last_speech_time # None /\ s.ac[id].audio_buffer # <<>>
                /\ t - last_speech_time >= s.ac[id].speech_timeout
             THEN process_buffered_audio(s, id, "silence")
             ELSE [s |-> s, call |-> NoCall]
    ELSE [s |-> s, call |-> NoCall]

\* _silence_check_loop, lines 619-625: the ids the scan selects, in dict order
connections_to_process(s, t) ==
    SelectSeq(s.keys, LAMBDA id :
        /\ s.ac[id].last_speech_time # None
        /\ s.ac[id].audio_buffer # <<>>
        /\ t - s.ac[id].last_speech_time >= s.ac[id].speech_timeout)

\* _silence_check_loop, lines 628-630: flush the selected ids one after the
\* other, up to the first flush that awaits the transcription collaborator
RECURSIVE silence_check_process(_, _)
silence_check_process(s, todo) ==
    IF todo = <<>> THEN [s |-> s, call |-> NoCall, todo |-> <<>>]
    ELSE LET r == process_buffered_audio(s, Head(todo), "watchdog")
         IN  IF r.call # NoCall
             THEN [s |-> r.s, call |-> r.call, todo |-> Tail(todo)]
             ELSE silence_check_process(r.s, Tail(todo))

\* ------------------------------------------------------------ the classifier
\* AudioService.__init__.  Energies (rms, noise_floor) are in thousandths;
\* speech_frames and silence_frames are lists of True, held as their lengths
new_audio_service ==
    [vad |-> TRUE,
     noise_floor |-> 50000,
     noise_samples |-> <<>>,
     speech_frames |-> 0,
     silence_frames |-> 0]

\* what webrtcvad's is_speech does with one 20 ms sub-frame
EngineOutcomes == {"speech", "silence", "error"}

\* the sub-frames range(0, len(audio_samples), frame_size) yields
frame_count(nbytes) ==
    LET padded == IF nbytes % 2 # 0 THEN nbytes + 1 ELSE nbytes
        samples == padded \div sample_width
        frame_size == (sample_rate * vad_frame_duration_ms) \div 1000
    IN  (samples + frame_size - 1) \div frame_size

\* the energies a chunk may have: 10.0 and 1000.0
RmsLevels == {10000, 1000000}

\* chunks handed to process_audio_chunk: their length in bytes, their RMS
\* energy and what the engine does with each of their sub-frames
VadChunks ==
    {[nbytes |-> 0, rms |-> 0, engine |-> <<>>]}
    \cup {[nbytes |-> 100 * ((sample_rate * sample_width) \div 1000), rms |-> r, engine |-> e] :
              r \in RmsLevels, e \in [1..5 -> EngineOutcomes]}

\* _update_noise_floor without the test of line 213: every sample is admitted
update_noise_floor_admits_all(a, rms) ==
    LET appended == Append(a.noise_samples, rms)
        n == Len(appended)
        window == IF n > max_noise_samples
                  THEN SubSeq(appended, n - max_noise_samples + 1, n)
                  ELSE appended
        sorted_samples == SortSeq(window, LAMBDA x, y : x < y)
        new_noise_floor == sorted_samples[(Len(window) \div 4) + 1]
    IN  IF Len(window) >= 10
        THEN [a EXCEPT !.noise_samples = window,
                       !.noise_floor = (9 * @ + new_noise_floor) \div 10]
        ELSE [a EXCEPT !.noise_samples = window]

\* _update_noise_floor with line 218 keeping the oldest samples
\* (noise_samples[:max_noise_samples])
update_noise_floor_keeps_oldest(a, rms) ==
    LET admit == a.speech_frames = 0 \/ a.silence_frames > a.speech_frames
        appended == IF admit THEN Append(a.noise_samples, rms) ELSE a.noise_samples
        n == Len(appended)
        window == IF n > max_noise_samples
                  THEN SubSeq(appended, 1, max_noise_samples)
                  ELSE appended
        sorted_samples == SortSeq(window, LAMBDA x, y : x < y)
        new_noise_floor == sorted_samples[(Len(window) \div 4) + 1]
    IN  IF ~admit THEN a
        ELSE IF Len(window) >= 10
        THEN [a EXCEPT !.noise_samples = window,
                       !.noise_floor = (9 * @ + new_noise_floor) \div 10]
        ELSE [a EXCEPT !.noise_samples = window]

\* _update_noise_floor
update_noise_floor(a, rms) ==
    LET admit == a.speech_frames = 0 \/ a.silence_frames > a.speech_frames
        appended == IF admit THEN Append(a.noise_samples, rms) ELSE a.noise_samples
        n == Len(appended)
        window == IF n > max_noise_samples
                  THEN SubSeq(appended, n - max_noise_samples + 1, n)
                  ELSE appended
        sorted_samples == SortSeq(window, LAMBDA x, y : x < y)
        new_noise_floor == sorted_samples[(Len(window) \div 4) + 1]
    IN  IF ~admit THEN a
        ELSE IF Len(window) >= 10
        THEN [a EXCEPT !.noise_samples = window,
                       !.noise_floor = (9 * @ + new_noise_floor) \div 10]
        ELSE [a EXCEPT !.noise_samples = window]

\* _cleanup_frame_history with lines 206-207 left out: the silence history
\* is not trimmed
cleanup_frame_history_speech_only(a) ==
    [a EXCEPT !.speech_frames = IF @ > max_frames THEN max_frames ELSE @]

\* _cleanup_frame_history
cleanup_frame_history(a) ==
    [a EXCEPT !.speech_frames = IF @ > max_frames THEN max_frames ELSE @,
              !.silence_frames = IF @ > max_frames THEN max_frames ELSE @]

\* the vote with every sub-frame put into processed_frames, silent ones too
RECURSIVE vote_keeps_all(_, _, _)
vote_keeps_all(engine, i, acc) ==
    IF i > Len(engine) THEN acc
    ELSE vote_keeps_all(engine, i + 1,
              CASE engine[i] = "speech" ->
                     [acc EXCEPT !.speech_frame_count = @ + 1,
                                 !.total_frame_count = @ + 1,
                                 !.speech_frames = @ + 1,
                                 !.kept = Append(@, i),
                                 !.invoked = @ + 1]
                [] engine[i] = "silence" ->
                     [acc EXCEPT !.total_frame_count = @ + 1,
                                 !.silence_frames = @ + 1,
                                 !.kept = Append(@, i),
                                 !.invoked = @ + 1]
                [] OTHER ->
                     [acc EXCEPT !.total_frame_count = @ + 1,
                                 !.kept = Append(@, i),
                                 !.invoked = @ + 1])

\* process_audio_chunk, lines 142-170: the vote over the sub-frames from the
\* i-th on.  kept: the sub-frames put into processed_frames; invoked: the
\* calls of the engine
RECURSIVE vote(_, _, _)
vote(engine, i, acc) ==
    IF i > Len(engine) THEN acc
    ELSE vote(engine, i + 1,
              CASE engine[i] = "speech" ->
                     [acc EXCEPT !.speech_frame_count = @ + 1,
                                 !.total_frame_count = @ + 1,
                                 !.speech_frames = @ + 1,
                                 !.kept = Append(@, i),
                                 !.invoked = @ + 1]
                [] engine[i] = "silence" ->
                     [acc EXCEPT !.total_frame_count = @ + 1,
                                 !.silence_frames = @ + 1,
                                 !.invoked = @ + 1]
                [] OTHER ->
                     [acc EXCEPT !.total_frame_count = @ + 1,
                                 !.kept = Append(@, i),
                                 !.invoked = @ + 1])

\* the energy gate with nothing below the threshold
below_threshold_never(a, rms) == FALSE

\* process_audio_chunk, lines 131-133: rms < noise_floor * adaptive_threshold_multiplier
below_threshold(a, rms) ==
    rms * adaptive_threshold_den < a.noise_floor * adaptive_threshold_num

\* the decision with the count alone
has_significant_speech_count_only(speech_frame_count, total_frame_count) ==
    speech_frame_count >= 2

\* process_audio_chunk, lines 176-182: speech_ratio >= speech_threshold and
\* speech_frame_count >= 2
has_significant_speech(speech_frame_count, total_frame_count) ==
    /\ speech_frame_count * speech_threshold_den
          >= speech_threshold_num * total_frame_count
    /\ speech_frame_count >= 2

\* process_audio_chunk: the service after the call, has_speech, the
\* sub-frames of the chunk that make up the returned audio when has_speech
\* (otherwise the chunk is returned as it came), and the engine calls made
process_audio_chunk(a, chunk) ==
    LET none == [a |-> a, has_speech |-> FALSE, kept |-> <<>>, invoked |-> 0,
                 gated |-> FALSE]
        a1 == update_noise_floor(a, chunk.rms)
        below == below_threshold(a1, chunk.rms)
        v == vote(chunk.engine, 1,
                  [speech_frame_count |-> 0, total_frame_count |-> 0,
                   speech_frames |-> a1.speech_frames,
                   silence_frames |-> a1.silence_frames,
                   kept |-> <<>>, invoked |-> 0])
        significant ==
            has_significant_speech(v.speech_frame_count, v.total_frame_count)
        a2 == cleanup_frame_history(
                  [a1 EXCEPT !.speech_frames = v.speech_frames,
                             !.silence_frames = v.silence_frames])
    IN  IF ~a.vad THEN none
        ELSE IF frame_count(chunk.nbytes) = 0 THEN none
        ELSE IF below THEN [none EXCEPT !.a = a1, !.gated = TRUE]
        ELSE IF v.total_frame_count = 0
        THEN [none EXCEPT !.a = [a1 EXCEPT !.speech_frames = v.speech_frames,
                                           !.silence_frames = v.silence_frames]]
        ELSE [a |-> a2,
              has_speech |-> significant /\ v.kept # <<>>,
              kept |-> IF significant THEN v.kept ELSE <<>>,
              invoked |-> v.invoked,
              gated |-> FALSE]

\* no broadcast_message is running.  size and pos are the dictionary
\* iterator's (the size of websocket_connections when the iteration began,
\* the last id it yielded), disconnected is the local list; targets and
\* attempted record the ids registered when the broadcast began and those a
\* send_text was issued to
NoBroadcast ==
    [pc |-> "idle", size |-> 0, pos |-> 0, disconnected |-> <<>>,
     targets |-> {}, attempted |-> {}]

\* no chunk classified yet.  calls counts the chunks classified; chunk is the
\* last one, conn the session it came from (0: none) and the other fields
\* are what process_audio_chunk made of it
NotClassified ==
    [calls |-> 0, chunk |-> [nbytes |-> 0, rms |-> 0, engine |-> <<>>],
     has_speech |-> FALSE, kept |-> <<>>, invoked |-> 0, gated |-> FALSE,
     conn |-> 0]

\* ------------------------------------------------ bytes read as samples
\* values of a byte
ByteValues == {0, 1, 127, 128, 255}

\* lengths of a buffer, in bytes
BufferLengths == {0, 1, 2, 3, 2400, 2401, 2402, 3199, 3200}

\* a bytes object, as its length and its last two bytes (all of it when
\* shorter) in the order they have in the buffer
Buffers ==
    {[nbytes |-> 0, tail |-> <<>>]}
    \cup {[nbytes |-> 1, tail |-> <<b>>] : b \in ByteValues}
    \cup {[nbytes |-> n, tail |-> <<a, b>>] :
              n \in BufferLengths \ {0, 1}, a \in ByteValues, b \in ByteValues}

\* the alignment with the zero byte put in front of the buffer
pad_int16_in_front(audio_data) ==
    IF audio_data.nbytes % 2 # 0
    THEN [nbytes |-> audio_data.nbytes + 1,
          tail |-> IF audio_data.nbytes = 1 THEN <<0>> \o audio_data.tail
                   ELSE audio_data.tail]
    ELSE audio_data

\* process_audio_chunk, lines 114-116 (and get_audio_duration, 385-386):
\* audio_data + b'\x00' when the length is odd
pad_int16(audio_data) ==
    IF audio_data.nbytes % 2 # 0
    THEN [nbytes |-> audio_data.nbytes + 1,
          tail |-> <<audio_data.tail[Len(audio_data.tail)], 0>>]
    ELSE audio_data

\* np.frombuffer(audio_data, dtype=np.int16) on an aligned buffer: the number
\* of samples and the last of them.  A sample is two bytes, the first the low
\* byte (the little-endian int16 of the hosts the service is built for), read
\* as a signed 16-bit number
frombuffer_int16(audio_data) ==
    LET unsigned == audio_data.tail[1] + 256 * audio_data.tail[2]
    IN  [count |-> audio_data.nbytes \div sample_width,
         last |-> IF audio_data.nbytes = 0 THEN 0
                  ELSE IF unsigned >= 32768 THEN unsigned - 65536
                  ELSE unsigned]

\* nothing read yet
NoSamples ==
    [input |-> [nbytes |-> 0, tail |-> <<>>],
     padded |-> [nbytes |-> 0, tail |-> <<>>],
     audio_samples |-> [count |-> 0, last |-> 0],
     read |-> FALSE]

\* the low and the high byte of a 16-bit sample
LowByte(sample) == (sample % 65536) % 256

HighByte(sample) == (sample % 65536) \div 256

\* ------------------------------------------------------------------ actions
\* an outbound envelope: its type and, for a transcription_response, the
\* success flag of the collaborator's response (TRUE for the other types,
\* whose payload is not modelled)
Envelope(type, success) == [type |-> type, success |-> success]

Apply(s) ==
    /\ active_connections' = s.ac
    /\ active_keys' = s.keys
    /\ websocket_connections' = s.ws
    /\ events' = s.out

\* the receive task of c is at the top of its loop
Receiving(c) == pc[c] = "recv"

\* a message arrives and line 184 finds the connection registered
Takes(c) ==
    /\ Receiving(c)
    /\ c \in DOMAIN active_connections

\* the same for a message of a kind other than audio_chunk and
\* transcription_request
TakesOther(c) == Takes(c)

\* the handler returned r: the task is suspended in the collaborator call r
\* names, or back at receive_text
Resume(c, r) ==
    /\ Apply(r.s)
    /\ IF r.call # NoCall
       THEN pc' = [pc EXCEPT ![c] = "asr"] /\ inflight' = [inflight EXCEPT ![c] = r.call.audio]
       ELSE UNCHANGED <<pc, inflight>>

Init ==
    /\ active_connections = <<>>
    /\ active_keys = <<>>
    /\ websocket_connections = {}
    /\ pc = [c \in ConnIds |-> "init"]
    /\ inflight = [c \in ConnIds |-> <<>>]
    \* _start_silence_checker: the task runs when the service is constructed
    \* inside a running event loop, and not otherwise
    /\ wd \in {[task |-> k, pc |-> "sleep", todo |-> <<>>, call |-> NoCall] :
                   k \in {"running", "none"}}
    /\ now = silence_check_interval
    /\ events = <<>>
    /\ audio_service = new_audio_service
    /\ classified = NotClassified
    /\ broadcast = NoBroadcast
    /\ own_service = [c \in ConnIds |-> new_audio_service]
    /\ converted = NoSamples

\* handle_websocket_connection, lines 144-169: register, acknowledge
Connect(c) ==
    /\ pc[c] = "init"
    /\ \A d \in ConnIds : d < c => pc[d] # "init"
    /\ \E cs \in ClientStates, ok \in BOOLEAN :
          LET s1 == [Service EXCEPT !.ws = @ \cup {c},
                                    !.ac = Put(@, c, new_connection),
                                    !.keys = Append(@, c)]
          IN  Apply(send_websocket_message(s1, c,
                        Envelope("connection_established", TRUE), cs, ok))
    /\ pc' = [pc EXCEPT ![c] = "recv"]
    /\ UNCHANGED <<inflight, wd, now,
                   audio_service, classified, broadcast, own_service, converted>>

\* handle_websocket_connection returning without its finally block: the
\* entries of the session stay where they are
Cleanup_leaves_registered(c) ==
    /\ Apply(Service)
    /\ pc' = [pc EXCEPT ![c] = "closed"]
    /\ inflight' = [inflight EXCEPT ![c] = <<>>]
    /\ UNCHANGED <<wd, now,
                   audio_service, classified, broadcast, own_service, converted>>

\* handle_websocket_connection flushing what is buffered before its finally
\* block removes the session
Cleanup_flushes(c) ==
    /\ LET r == process_buffered_audio(Service, c, "teardown")
       IN  Apply(deregister(r.s, c))
    /\ pc' = [pc EXCEPT ![c] = "closed"]
    /\ inflight' = [inflight EXCEPT ![c] = <<>>]
    /\ UNCHANGED <<wd, now,
                   audio_service, classified, broadcast, own_service, converted>>

\* lines 220-227: the finally block of handle_websocket_connection; the
\* endpoint (routers/streaming.py) returns and the websocket is closed
Cleanup(c) ==
    /\ Apply(deregister(Service, c))
    /\ pc' = [pc EXCEPT ![c] = "closed"]
    /\ inflight' = [inflight EXCEPT ![c] = <<>>]
    /\ UNCHANGED <<wd, now,
                   audio_service, classified, broadcast, own_service, converted>>

\* lines 175-177: the loop finds the client disconnected
RecvDisconnected(c) ==
    /\ Receiving(c)
    /\ Cleanup(c)

\* lines 208-216: receive_text raises
RecvError(c) ==
    /\ Receiving(c)
    /\ Cleanup(c)

\* the receive task is cancelled where it is suspended (receive_text or a
\* collaborator call): CancelledError is no Exception, passes every except
\* clause and runs the finally block
Cancelled(c) ==
    /\ pc[c] \in {"recv", "asr", "llm", "tts"}
    /\ Cleanup(c)

\* line 184 on a connection that a failed send has deregistered: KeyError,
\* caught at line 208
RecvKeyError(c) ==
    /\ Receiving(c)
    /\ c \notin DOMAIN active_connections
    /\ Cleanup(c)

\* a message that is not JSON ending the connection: the loop is left
RecvInvalidJson_breaks(c) ==
    /\ TakesOther(c)
    /\ Cleanup(c)

\* lines 190-195: the message is not JSON
RecvInvalidJson(c) ==
    /\ TakesOther(c)
    /\ \E cs \in ClientStates, ok \in BOOLEAN :
          Apply(send_websocket_message(Service, c, Envelope("error", FALSE),
                                       cs, ok))
    /\ UNCHANGED <<pc, inflight, wd, now,
                   audio_service, classified, broadcast, own_service, converted>>

\* lines 196-201: process_websocket_message raises (JSON that is no object)
RecvProcessingError(c) ==
    /\ TakesOther(c)
    /\ \E cs \in ClientStates, ok \in BOOLEAN :
          Apply(send_websocket_message(Service, c, Envelope("error", FALSE),
                                       cs, ok))
    /\ UNCHANGED <<pc, inflight, wd, now,
                   audio_service, classified, broadcast, own_service, converted>>

\* an audio_chunk message handled without line 184: the handler runs for a
\* session whether or not it is still registered
RecvAudioChunk_unregistered(c) ==
    /\ Receiving(c)
    /\ \E chunk \in ChunkInputs :
          /\ chunk.has_speech => Len(BufferOf(active_connections, c)) < MaxChunks
          /\ Resume(c, handle_audio_chunk(Service, c, chunk.has_data,
                                          chunk.has_speech, chunk.frames, now))
    /\ UNCHANGED <<wd, now,
                   audio_service, classified, broadcast, own_service, converted>>

\* type audio_chunk
RecvAudioChunk(c) ==
    /\ Takes(c)
    /\ \E chunk \in ChunkInputs :
          /\ chunk.has_speech => Len(active_connections[c].audio_buffer) < MaxChunks
          /\ Resume(c, handle_audio_chunk(Service, c, chunk.has_data,
                                          chunk.has_speech, chunk.frames, now))
    /\ UNCHANGED <<wd, now,
                   audio_service, classified, broadcast, own_service, converted>>

\* type transcription_request
RecvTranscriptionRequest(c) ==
    /\ Takes(c)
    /\ \E valid \in BOOLEAN :
          Resume(c, handle_transcription_request(Service, c, valid, <<>>))
    /\ UNCHANGED <<wd, now,
                   audio_service, classified, broadcast, own_service, converted>>

\* type chat_request: handle_chat_request up to its await of generate_response
RecvChatRequest(c) ==
    /\ TakesOther(c)
    /\ \E valid \in BOOLEAN :
          pc' = [pc EXCEPT ![c] = IF valid THEN "llm" ELSE "recv"]
    /\ events' = <<>>
    /\ UNCHANGED <<active_connections, active_keys, websocket_connections,
                   inflight, wd, now,
                   audio_service, classified, broadcast, own_service, converted>>

\* type tts_request: handle_tts_request up to its await of synthesize_speech
RecvTtsRequest(c) ==
    /\ TakesOther(c)
    /\ \E valid \in BOOLEAN :
          pc' = [pc EXCEPT ![c] = IF valid THEN "tts" ELSE "recv"]
    /\ events' = <<>>
    /\ UNCHANGED <<active_connections, active_keys, websocket_connections,
                   inflight, wd, now,
                   audio_service, classified, broadcast, own_service, converted>>

\* type rating: handle_rating
RecvRating(c) ==
    /\ TakesOther(c)
    /\ \E cs \in ClientStates, ok \in BOOLEAN :
          Apply(send_websocket_message(Service, c, Envelope("rating_confirmation", TRUE),
                                       cs, ok))
    /\ UNCHANGED <<pc, inflight, wd, now,
                   audio_service, classified, broadcast, own_service, converted>>

\* any other type: logged
RecvUnknown(c) ==
    /\ Takes(c)
    /\ events' = <<>>
    /\ UNCHANGED <<active_connections, active_keys, websocket_connections,
                   pc, inflight, wd, now,
                   audio_service, classified, broadcast, own_service, converted>>

\* transcribe_audio returns in the receive task, a failed transcription
\* ending the connection instead of being relayed
AsrReturn_failure_fatal(c) ==
    /\ pc[c] = "asr"
    /\ \/ /\ \E cs \in ClientStates, ok \in BOOLEAN :
                Apply(send_websocket_message(Service, c,
                          Envelope("transcription_response", TRUE), cs, ok))
          /\ pc' = [pc EXCEPT ![c] = "recv"]
          /\ inflight' = [inflight EXCEPT ![c] = <<>>]
          /\ UNCHANGED <<wd, now, audio_service, classified, broadcast, own_service, converted>>
       \/ Cleanup(c)

\* handle_transcription_request, lines 431-441, in the receive task:
\* transcribe_audio returns and the response is relayed
AsrReturn(c) ==
    /\ pc[c] = "asr"
    /\ \E success \in BOOLEAN, cs \in ClientStates, ok \in BOOLEAN :
          Apply(send_websocket_message(Service, c,
                    Envelope("transcription_response", success), cs, ok))
    /\ pc' = [pc EXCEPT ![c] = "recv"]
    /\ inflight' = [inflight EXCEPT ![c] = <<>>]
    /\ UNCHANGED <<wd, now,
                   audio_service, classified, broadcast, own_service, converted>>

\* handle_chat_request, lines 465-477
LlmReturn(c) ==
    /\ pc[c] = "llm"
    /\ \E cs \in ClientStates, ok \in BOOLEAN :
          Apply(send_websocket_message(Service, c,
                    Envelope("chat_response", TRUE), cs, ok))
    /\ pc' = [pc EXCEPT ![c] = "recv"]
    /\ UNCHANGED <<inflight, wd, now,
                   audio_service, classified, broadcast, own_service, converted>>

\* handle_tts_request, lines 501-512
TtsReturn(c) ==
    /\ pc[c] = "tts"
    /\ \E cs \in ClientStates, ok \in BOOLEAN :
          Apply(send_websocket_message(Service, c,
                    Envelope("tts_response", TRUE), cs, ok))
    /\ pc' = [pc EXCEPT ![c] = "recv"]
    /\ UNCHANGED <<inflight, wd, now,
                   audio_service, classified, broadcast, own_service, converted>>

\* the watchdog after r: suspended in the collaborator call r names, with the
\* ids still to process, or asleep
WatchdogResume(r) ==
    /\ Apply(r.s)
    /\ wd' = [wd EXCEPT !.pc = IF r.call # NoCall THEN "asr" ELSE "sleep",
                        !.todo = r.todo,
                        !.call = r.call]

\* _silence_check_loop: the sleep ends, the scan selects, the flushes start
WatchdogTick ==
    /\ wd.task = "running"
    /\ wd.pc = "sleep"
    /\ WatchdogResume(silence_check_process(Service, connections_to_process(Service, now)))
    /\ UNCHANGED <<pc, inflight, now,
                   audio_service, classified, broadcast, own_service, converted>>

\* the watchdog's transcribe_audio returns, with the relay to a session that
\* is gone ending the tick: the ids left are dropped
WatchdogAsrReturn_aborts ==
    /\ wd.pc = "asr"
    /\ \E success \in BOOLEAN, cs \in ClientStates, ok \in BOOLEAN :
          WatchdogResume(
              IF wd.call.conn \in websocket_connections
              THEN silence_check_process(
                       send_websocket_message(Service, wd.call.conn,
                           Envelope("transcription_response", success), cs, ok),
                       wd.todo)
              ELSE [s |-> Service, call |-> NoCall, todo |-> <<>>])
    /\ UNCHANGED <<pc, inflight, now,
                   audio_service, classified, broadcast, own_service, converted>>

\* the watchdog's transcribe_audio returns: relay, then go on with the ids left
WatchdogAsrReturn ==
    /\ wd.pc = "asr"
    /\ \E success \in BOOLEAN, cs \in ClientStates, ok \in BOOLEAN :
          WatchdogResume(silence_check_process(
              send_websocket_message(Service, wd.call.conn,
                  Envelope("transcription_response", success),
                  cs, ok),
              wd.todo))
    /\ UNCHANGED <<pc, inflight, now,
                   audio_service, classified, broadcast, own_service, converted>>

\* 500 ms pass.  Time is read only as now - last_speech_time of a session with
\* buffered audio, compared with its speech_timeout: the clock is advanced
\* while some session's timeout is still running.
Tick ==
    /\ now < MaxTicks * silence_check_interval
    /\ \E id \in DOMAIN active_connections :
          /\ active_connections[id].last_speech_time # None
          /\ active_connections[id].audio_buffer # <<>>
          /\ now - active_connections[id].last_speech_time
                 < active_connections[id].speech_timeout
    /\ now' = now + silence_check_interval
    /\ events' = <<>>
    /\ UNCHANGED <<active_connections, active_keys, websocket_connections,
                   pc, inflight, wd,
                   audio_service, classified, broadcast, own_service, converted>>

Next ==
    \/ \E c \in ConnIds : Connect(c)
    \/ \E c \in ConnIds : RecvDisconnected(c)
    \/ \E c \in ConnIds : RecvError(c)
    \/ \E c \in ConnIds : Cancelled(c)
    \/ \E c \in ConnIds : RecvKeyError(c)
    \/ \E c \in ConnIds : RecvInvalidJson(c)
    \/ \E c \in ConnIds : RecvProcessingError(c)
    \/ \E c \in ConnIds : RecvAudioChunk(c)
    \/ \E c \in ConnIds : RecvTranscriptionRequest(c)
    \/ \E c \in ConnIds : RecvChatRequest(c)
    \/ \E c \in ConnIds : RecvTtsRequest(c)
    \/ \E c \in ConnIds : RecvRating(c)
    \/ \E c \in ConnIds : RecvUnknown(c)
    \/ \E c \in ConnIds : AsrReturn(c)
    \/ \E c \in ConnIds : LlmReturn(c)
    \/ \E c \in ConnIds : TtsReturn(c)
    \/ WatchdogTick
    \/ WatchdogAsrReturn
    \/ Tick

Spec == Init /\ [][Next]_vars

\* ------------------------------------------------------------ the broadcast
\* broadcast_message, lines 596-600: the ids of the list are deregistered
RECURSIVE remove_disconnected(_, _)
remove_disconnected(s, disconnected) ==
    IF disconnected = <<>> THEN s
    ELSE remove_disconnected(deregister(s, Head(disconnected)), Tail(disconnected))

\* broadcast_message from one suspension to the next.  The for loop of line
\* 588 iterates the live dictionary and is suspended in each send_text: the
\* iterator's next() raises RuntimeError when the dictionary has changed its
\* size since the iteration began, and the exception leaves broadcast_message.
\* Ids are inserted in increasing order and never again, so the dictionary's
\* order is the order of the ids.
broadcast_iterate(b) ==
    IF Cardinality(websocket_connections) # b.size
    THEN /\ broadcast' = [b EXCEPT !.pc = "raised"]
         /\ Apply(Service)
    ELSE LET rest == {c \in websocket_connections : c > b.pos}
         IN  IF rest = {}
             THEN /\ broadcast' = [b EXCEPT !.pc = "done"]
                  /\ Apply(remove_disconnected(Service, b.disconnected))
             ELSE LET id == CHOOSE c \in rest : \A d \in rest : c <= d
                  IN  \E ok \in BOOLEAN :
                         /\ broadcast' =
                               [b EXCEPT !.pos = id,
                                         !.attempted = @ \cup {id},
                                         !.disconnected =
                                             IF ok THEN @ ELSE Append(@, id)]
                         /\ Apply([Service EXCEPT !.out =
                                      IF ok
                                      THEN <<Event("send", id, <<>>, "broadcast", TRUE)>>
                                      ELSE <<>>])

\* broadcast_message is called: the iteration begins and the first send_text
\* is issued
BroadcastStart ==
    /\ broadcast.pc = "idle"
    /\ broadcast_iterate([NoBroadcast EXCEPT
                             !.pc = "sending",
                             !.size = Cardinality(websocket_connections),
                             !.targets = websocket_connections])
    /\ UNCHANGED <<pc, inflight, wd, now, audio_service, classified, own_service, converted>>

\* the send_text the broadcast is suspended in is over: the next iteration
BroadcastResume ==
    /\ broadcast.pc = "sending"
    /\ broadcast_iterate(broadcast)
    /\ UNCHANGED <<pc, inflight, wd, now, audio_service, classified, own_service, converted>>

\* the registry as connections come and go, with a broadcast under way
BroadcastNext ==
    \/ \E c \in ConnIds : Connect(c)
    \/ \E c \in ConnIds : RecvDisconnected(c)
    \/ \E c \in ConnIds : RecvRating(c)
    \/ \E c \in ConnIds : RecvKeyError(c)
    \/ BroadcastStart
    \/ BroadcastResume

BroadcastSpec == Init /\ [][BroadcastNext]_vars

\* ------------------------------------------------- the classifier on its own
\* a chunk is handed to process_audio_chunk
ProcessAudioChunk ==
    /\ classified.calls < MaxCalls
    /\ \E chunk \in VadChunks :
          LET r == process_audio_chunk(audio_service, chunk)
          IN  /\ audio_service' = r.a
              /\ classified' = [calls |-> classified.calls + 1,
                                chunk |-> chunk,
                                has_speech |-> r.has_speech,
                                kept |-> r.kept,
                                invoked |-> r.invoked,
                                gated |-> r.gated,
                                conn |-> 0]
    /\ UNCHANGED <<active_connections, active_keys, websocket_connections,
                   pc, inflight, wd, now, events, broadcast, own_service, converted>>

VadNext == ProcessAudioChunk

VadSpec == Init /\ [][VadNext]_vars

\* ---------------------------------------- the classifier under two sessions
\* the chunks of the sessions: 100 ms of loud noise (RMS 1000.0, no sub-frame
\* speech) and 100 ms of soft speech (RMS 300.0, every sub-frame speech)
SharedChunks ==
    {[nbytes |-> 100 * ((sample_rate * sample_width) \div 1000),
      rms |-> 1000000, engine |-> [i \in 1..5 |-> "silence"]],
     [nbytes |-> 100 * ((sample_rate * sample_width) \div 1000),
      rms |-> 300000, engine |-> [i \in 1..5 |-> "speech"]]}

\* handle_audio_chunk, lines 273-275, for an audio_chunk of session c: the
\* chunk goes to the module's one audio_service.  own_service[c] is given the
\* same chunk and no other session's.
ClassifyFor(c) ==
    /\ Takes(c)
    /\ classified.calls < MaxShared
    /\ \E chunk \in SharedChunks :
          LET r == process_audio_chunk(audio_service, chunk)
          IN  /\ audio_service' = r.a
              /\ classified' = [calls |-> classified.calls + 1,
                                chunk |-> chunk,
                                has_speech |-> r.has_speech,
                                kept |-> r.kept,
                                invoked |-> r.invoked,
                                gated |-> r.gated,
                                conn |-> c]
              /\ own_service' = [own_service EXCEPT
                                    ![c] = process_audio_chunk(@, chunk).a]
    /\ UNCHANGED <<active_connections, active_keys, websocket_connections,
                   pc, inflight, wd, now, events, broadcast, converted>>

SharedNext ==
    \/ \E c \in ConnIds : Connect(c)
    \/ \E c \in ConnIds : ClassifyFor(c)

SharedSpec == Init /\ [][SharedNext]_vars

\* ------------------------------------------------- the sample conversion
\* process_audio_chunk, lines 112-118: a buffer is aligned and read as samples
FromBuffer ==
    /\ \E audio_data \in Buffers :
          LET padded == pad_int16(audio_data)
          IN  converted' = [input |-> audio_data,
                          padded |-> padded,
                          audio_samples |-> frombuffer_int16(padded),
                          read |-> TRUE]
    /\ UNCHANGED <<active_connections, active_keys, websocket_connections,
                   pc, inflight, wd, now, events, audio_service, classified,
                   broadcast, own_service>>

SamplesNext == FromBuffer

SamplesSpec == Init /\ [][SamplesNext]_vars

\* ------------------------------------------ the classifier after some time
\* a 100 ms chunk of energy rms on whose every sub-frame the engine says the same
UniformChunk(rms, outcome) ==
    [nbytes |-> 100 * ((sample_rate * sample_width) \div 1000),
     rms |-> rms, engine |-> [i \in 1..5 |-> outcome]]

\* n calls of process_audio_chunk with the same chunk (the test of
\* a.noise_floor has a evaluated before the next call is unfolded)
RECURSIVE replay(_, _, _)
replay(a, chunk, n) ==
    IF n = 0 \/ a.noise_floor < 0 THEN a
    ELSE replay(process_audio_chunk(a, chunk).a, chunk, n - 1)

\* what the service has classified since it was constructed: so many chunks
\* of speech (RMS 1000.0), then so many of loud noise without speech
Histories ==
    {[speech |-> 0, noise |-> 0], [speech |-> 0, noise |-> 9],
     [speech |-> 0, noise |-> 99], [speech |-> 0, noise |-> 100],
     [speech |-> 1, noise |-> 0], [speech |-> 1, noise |-> 2],
     [speech |-> 20, noise |-> 0], [speech |-> 20, noise |-> 20]}

\* the AudioService after the history h
after_history(h) ==
    replay(replay(new_audio_service, UniformChunk(1000000, "speech"), h.speech),
           UniformChunk(1000000, "silence"), h.noise)

\* the chunks that follow: energies 10.0, 300.0 and 1000.0, all speech or none
NoiseChunks ==
    {UniformChunk(r, o) : r \in {10000, 300000, 1000000}, o \in {"speech", "silence"}}

NoiseInit ==
    /\ active_connections = <<>>
    /\ active_keys = <<>>
    /\ websocket_connections = {}
    /\ pc = [c \in ConnIds |-> "init"]
    /\ inflight = [c \in ConnIds |-> <<>>]
    /\ wd = [task |-> "none", pc |-> "sleep", todo |-> <<>>, call |-> NoCall]
    /\ now = silence_check_interval
    /\ events = <<>>
    /\ audio_service \in {after_history(h) : h \in Histories}
    /\ classified = NotClassified
    /\ broadcast = NoBroadcast
    /\ own_service = [c \in ConnIds |-> new_audio_service]
    /\ converted = NoSamples

\* the next chunk is handed to process_audio_chunk
ClassifyNext ==
    /\ classified.calls < MaxNoiseCalls
    /\ \E chunk \in NoiseChunks :
          LET r == process_audio_chunk(audio_service, chunk)
          IN  /\ audio_service' = r.a
              /\ classified' = [calls |-> classified.calls + 1,
                                chunk |-> chunk,
                                has_speech |-> r.has_speech,
                                kept |-> r.kept,
                                invoked |-> r.invoked,
                                gated |-> r.gated,
                                conn |-> 0]
    /\ UNCHANGED <<active_connections, active_keys, websocket_connections,
                   pc, inflight, wd, now, events, broadcast, own_service,
                   converted>>

NoiseNext == ClassifyNext

NoiseSpec == NoiseInit /\ [][NoiseNext]_vars

\* ------------------------------------- the sessions with their classifier
\* the chunks the clients send: loud speech, loud noise, a faint sound (each
\* 100 ms) and an empty audio_data
ClientChunks ==
    {UniformChunk(1000000, "speech"), UniformChunk(1000000, "silence"),
     UniformChunk(10000, "speech"),
     [nbytes |-> 0, rms |-> 0, engine |-> <<>>]}

\* AudioService.__init__, lines 35-41: webrtcvad.Vad(...) succeeds, or raises
\* and leaves vad None
PipelineInit ==
    /\ active_connections = <<>>
    /\ active_keys = <<>>
    /\ websocket_connections = {}
    /\ pc = [c \in ConnIds |-> "init"]
    /\ inflight = [c \in ConnIds |-> <<>>]
    /\ wd = [task |-> "running", pc |-> "sleep", todo |-> <<>>, call |-> NoCall]
    /\ now = silence_check_interval
    /\ events = <<>>
    /\ audio_service \in {[new_audio_service EXCEPT !.vad = v] : v \in BOOLEAN}
    /\ classified = NotClassified
    /\ broadcast = NoBroadcast
    /\ own_service = [c \in ConnIds |-> new_audio_service]
    /\ converted = NoSamples

\* an audio_chunk whose every chunk with data is taken for speech, whatever
\* process_audio_chunk returns
RecvClassifiedChunk_all_speech(c) ==
    /\ Takes(c)
    /\ classified.calls < MaxClassified
    /\ \E chunk \in ClientChunks :
          LET r == process_audio_chunk(audio_service, chunk)
          IN  /\ Len(active_connections[c].audio_buffer) < MaxChunks
              /\ audio_service' = r.a
              /\ classified' = [calls |-> classified.calls + 1,
                                chunk |-> chunk,
                                has_speech |-> r.has_speech,
                                kept |-> r.kept,
                                invoked |-> r.invoked,
                                gated |-> r.gated,
                                conn |-> c]
              /\ Resume(c, handle_audio_chunk(Service, c, chunk.nbytes > 0,
                                              TRUE, Len(chunk.engine), now))
    /\ UNCHANGED <<wd, now, broadcast, own_service, converted>>

\* handle_audio_chunk, lines 262-322, for an audio_chunk of session c, with
\* the call of process_audio_chunk at line 274
RecvClassifiedChunk(c) ==
    /\ Takes(c)
    /\ classified.calls < MaxClassified
    /\ \E chunk \in ClientChunks :
          LET r == IF chunk.nbytes > 0
                   THEN process_audio_chunk(audio_service, chunk)
                   ELSE [a |-> audio_service, has_speech |-> FALSE,
                         kept |-> <<>>, invoked |-> 0, gated |-> FALSE]
          IN  /\ r.has_speech => Len(active_connections[c].audio_buffer) < MaxChunks
              /\ audio_service' = r.a
              /\ classified' = [calls |-> classified.calls + 1,
                                chunk |-> chunk,
                                has_speech |-> r.has_speech,
                                kept |-> r.kept,
                                invoked |-> r.invoked,
                                gated |-> r.gated,
                                conn |-> c]
              /\ Resume(c, handle_audio_chunk(Service, c, chunk.nbytes > 0,
                                              r.has_speech, Len(r.kept), now))
    /\ UNCHANGED <<wd, now, broadcast, own_service, converted>>

PipelineNext ==
    \/ \E c \in ConnIds : Connect(c)
    \/ \E c \in ConnIds : RecvDisconnected(c)
    \/ \E c \in ConnIds : RecvClassifiedChunk(c)
    \/ \E c \in ConnIds : RecvTranscriptionRequest(c)
    \/ \E c \in ConnIds : AsrReturn(c)
    \/ WatchdogTick
    \/ WatchdogAsrReturn
    \/ Tick

PipelineSpec == PipelineInit /\ [][PipelineNext]_vars

\* -------------------------------------------------------------- properties
\* the events of kind ev among evs that concern session c, in order
EventsOf(evs, c, ev) == SelectSeq(evs, LAMBDA e : e.conn = c /\ e.ev = ev)

\* the audio of the events evs, end to end
RECURSIVE AudioOf(_)
AudioOf(evs) ==
    IF evs = <<>> THEN <<>> ELSE Head(evs).audio \o AudioOf(Tail(evs))

\* a flush by _process_buffered_audio that handed its blob on
IsHandOff(e) == e.ev = "drain" /\ e.tag # "request" /\ e.flag

\* C1: every chunk appended to a session's buffer is drained from it exactly
\* once, however the receive tasks and the watchdog interleave, unless the
\* session is torn down first.  Step by step, for a session registered after
\* the step: the audio buffered before the step followed by the audio the step
\* appended is the audio the step drained followed by the audio buffered after
\* it, with nothing lost, repeated or reordered.
C1_DrainedExactlyOnce ==
    [][\A c \in ConnIds :
          c \in DOMAIN active_connections' =>
             Join(BufferOf(active_connections, c))
                   \o AudioOf(EventsOf(events', c, "append"))
              = AudioOf(EventsOf(events', c, "drain"))
                   \o Join(BufferOf(active_connections', c))]_vars

\* a receive task drains its session while a flush of the same session by the
\* watchdog is still in flight
C1_Witness ==
    \E i \in 1..Len(events) :
       /\ events[i].ev = "drain"
       /\ events[i].tag # "watchdog"
       /\ Len(events[i].audio) = 2
       /\ wd.pc = "asr"
       /\ wd.call.conn = events[i].conn

\* C2: when _process_buffered_audio hands a blob to the transcription
\* collaborator the session's buffer is already empty and its last_speech_time
\* None; a chunk appended while that call is in flight leaves the blob of the
\* call as it was and stays in the buffer.
C2_HandOffAfterReset ==
    [][/\ \A i \in 1..Len(events') :
             IsHandOff(events'[i]) =>
                /\ events'[i].conn \in DOMAIN active_connections'
                /\ active_connections'[events'[i].conn].audio_buffer = <<>>
                /\ active_connections'[events'[i].conn].last_speech_time = None
       /\ \A c \in ConnIds :
             (/\ wd.pc = "asr"
              /\ wd.call.conn = c
              /\ EventsOf(events', c, "append") # <<>>) =>
                /\ wd' = wd
                /\ EventsOf(events', c, "drain") = <<>> =>
                      LET buffer == BufferOf(active_connections', c)
                      IN  /\ buffer # <<>>
                          /\ buffer[Len(buffer)]
                               = EventsOf(events', c, "append")[1].audio]_vars

\* a chunk has just been appended to a session whose flush is in flight
C2_Witness ==
    \E c \in DOMAIN active_connections :
       /\ wd.pc = "asr"
       /\ wd.call.conn = c
       /\ EventsOf(events, c, "append") # <<>>
       /\ EventsOf(events, c, "drain") = <<>>
       /\ active_connections[c].audio_buffer # <<>>

FairSpec ==
    /\ Spec
    /\ WF_vars(WatchdogTick)
    /\ WF_vars(WatchdogAsrReturn)
    /\ \A c \in ConnIds : WF_vars(AsrReturn(c))
    /\ \A c \in ConnIds : WF_vars(LlmReturn(c))
    /\ \A c \in ConnIds : WF_vars(TtsReturn(c))

\* session c holds speech whose silence has reached speech_timeout
TimedOut(c) ==
    /\ c \in DOMAIN active_connections
    /\ active_connections[c].audio_buffer # <<>>
    /\ active_connections[c].last_speech_time # None
    /\ now - active_connections[c].last_speech_time >= speech_timeout

\* C4: a session with buffered speech whose silence has reached
\* speech_timeout, and on which nothing more arrives, is eventually flushed
\* by the watchdog while it stays connected.
C4_WatchdogEventuallyFlushes ==
    \A c \in ConnIds : TimedOut(c) ~> ~TimedOut(c)

\* C5: in every reachable state a registered session with an empty buffer
\* has last_speech_time None, also after a transcription_request served on
\* demand.
C5_EmptyBufferNoTimestamp ==
    \A c \in DOMAIN active_connections :
       active_connections[c].audio_buffer = <<>> =>
          active_connections[c].last_speech_time = None

\* C6: the chunks of a session are buffered in arrival order and a drained
\* blob is their concatenation in that order: a step that appends and does
\* not drain puts the chunk at the end of the buffer it found, and a step
\* that drains takes the chunks it found, then the chunk it appended, end to
\* end, and leaves the buffer empty.
C6_ArrivalOrder ==
    [][\A c \in ConnIds :
          LET before == BufferOf(active_connections, c)
              after == BufferOf(active_connections', c)
              appends == EventsOf(events', c, "append")
              drains == EventsOf(events', c, "drain")
          IN  /\ Len(appends) <= 1
              /\ (appends # <<>> /\ drains = <<>>) =>
                    after = Append(before, appends[1].audio)
              /\ drains # <<>> =>
                    /\ drains[1].audio
                         = IF appends = <<>> THEN Join(before)
                           ELSE Join(before) \o appends[1].audio
                    /\ after = <<>>]_vars

\* a blob of two chunks of different lengths has been drained
C6_Witness ==
    \E i \in 1..Len(events) :
       /\ events[i].ev = "drain"
       /\ Len(events[i].audio) = 2
       /\ events[i].audio[1] # events[i].audio[2]

\* C7: a flush by _process_buffered_audio whose blob is shorter than
\* min_audio_duration forwards nothing and sends no envelope, and leaves the
\* buffer empty and last_speech_time None; a blob of at least
\* min_audio_duration is the blob of the one collaborator call the flushing
\* task is then suspended in.
C7_ShortBlobDiscarded ==
    \A i \in 1..Len(events) :
       LET e == events[i]
       IN  (e.ev = "drain" /\ e.tag # "request") =>
              /\ e.conn \in DOMAIN active_connections
              /\ active_connections[e.conn].audio_buffer = <<>>
              /\ active_connections[e.conn].last_speech_time = None
              /\ e.flag <=> get_audio_duration(e.audio) >= min_audio_duration
              /\ ~e.flag =>
                    /\ \A j \in i..Len(events) :
                          ~(events[j].ev = "send" /\ events[j].conn = e.conn)
                    /\ IF e.tag = "watchdog"
                       THEN wd.call.conn # e.conn
                       ELSE pc[e.conn] = "recv"
              /\ e.flag =>
                    /\ i = Len(events)
                    /\ IF e.tag = "watchdog"
                       THEN /\ wd.pc = "asr"
                            /\ wd.call = [conn |-> e.conn, audio |-> e.audio]
                       ELSE /\ pc[e.conn] = "asr"
                            /\ inflight[e.conn] = e.audio

\* a flush has discarded a blob shorter than min_audio_duration
C7_Witness ==
    \E i \in 1..Len(events) :
       /\ events[i].ev = "drain"
       /\ events[i].tag # "request"
       /\ ~events[i].flag
       /\ get_audio_duration(events[i].audio) < min_audio_duration

\* C8: handling an audio chunk on session a leaves every other session's
\* buffer and last_speech_time as they were and flushes no other session.
C8_SessionIsolation ==
    [][\A a \in ConnIds :
          RecvAudioChunk(a) =>
             \A b \in ConnIds \ {a} :
                /\ b \in DOMAIN active_connections'
                     <=> b \in DOMAIN active_connections
                /\ b \in DOMAIN active_connections =>
                      active_connections'[b] = active_connections[b]
                /\ \A i \in 1..Len(events') : events'[i].conn # b
                /\ pc'[b] = pc[b]
                /\ inflight'[b] = inflight[b]]_vars

\* a speech chunk has been appended on one session while another session
\* holds buffered speech
C8_Witness ==
    \E a, b \in DOMAIN active_connections :
       /\ a # b
       /\ EventsOf(events, a, "append") # <<>>
       /\ active_connections[b].audio_buffer # <<>>
       /\ active_connections[b].last_speech_time # None

\* C9: a flush that calls the transcription collaborator does not block the
\* session's receive loop: after the hand-off the receive task of the session
\* is not suspended in a collaborator call.
C9_ReceiveLoopNotBlocked ==
    \A i \in 1..Len(events) :
       IsHandOff(events[i]) => pc[events[i].conn] # "asr"

\* session c was registered and is no longer
Removed(c) ==
    /\ pc[c] # "init"
    /\ c \notin DOMAIN active_connections
    /\ c \notin websocket_connections

WatchdogSelection ==
    IF wd.pc = "sleep" THEN connections_to_process(Service, now) ELSE wd.todo

\* C11: within a tick of the watchdog, a session whose processing fails or
\* that was removed while its flush was in flight does not stop the tick:
\* every other selected session is flushed on that tick unless its buffer
\* is empty by then, and the watchdog task stays alive and returns to its
\* sleep when the selection is used up.
C11_TickGoesOn ==
    [][/\ wd.task = "running" => wd'.task = "running"
       /\ (WatchdogTick \/ WatchdogAsrReturn) =>
             /\ wd'.pc \in {"sleep", "asr"}
             /\ wd'.pc = "sleep" => wd'.todo = <<>> /\ wd'.call = NoCall
             /\ \A i \in 1..Len(WatchdogSelection) :
                   LET b == WatchdogSelection[i]
                   IN  \/ \E j \in 1..Len(wd'.todo) : wd'.todo[j] = b
                       \/ BufferOf(active_connections, b) = <<>>
                       \/ \E k \in 1..Len(events') :
                             /\ events'[k].ev = "drain"
                             /\ events'[k].conn = b
                             /\ events'[k].tag = "watchdog"]_vars

\* the watchdog awaits the transcription of a session that has been removed
\* meanwhile, and another session selected on the same tick is still to flush
C11_Witness ==
    /\ wd.pc = "asr"
    /\ Removed(wd.call.conn)
    /\ wd.todo # <<>>
    /\ TimedOut(wd.todo[1])

\* C12: on every way out of the receive loop (disconnect seen, receive
\* error, KeyError after a failed send, cancellation of the task) the id of
\* the session is in neither dictionary once handle_websocket_connection has
\* returned.
C12_CleanupOnExit ==
    \A c \in ConnIds :
       pc[c] = "closed" =>
          /\ c \notin DOMAIN active_connections
          /\ c \notin websocket_connections
          /\ \A i \in 1..Len(active_keys) : active_keys[i] # c

\* a receive loop has ended and taken buffered audio of its session with it,
\* while another session is still registered
C12_Witness ==
    \E c \in ConnIds :
       /\ pc[c] = "closed"
       /\ EventsOf(events, c, "discard") # <<>>
       /\ \E d \in DOMAIN active_connections : d # c

\* C13: audio still buffered when a session is deregistered is never handed
\* to the transcription collaborator: the step that removes the session
\* drains nothing of it, and for a session that is not registered no step
\* drains anything or starts a collaborator call.
C13_TeardownDiscards ==
    [][\A c \in ConnIds :
          c \notin DOMAIN active_connections' =>
             /\ EventsOf(events', c, "drain") = <<>>
             /\ (wd'.pc = "asr" /\ wd'.call.conn = c) =>
                   wd.pc = "asr" /\ wd.call = wd'.call
             /\ pc'[c] = "asr" =>
                   pc[c] = "asr" /\ inflight'[c] = inflight[c]]_vars

\* a session has been deregistered with two chunks in its buffer
C13_Witness ==
    \E i \in 1..Len(events) :
       /\ events[i].ev = "discard"
       /\ Len(events[i].audio) = 2
       /\ events[i].conn \notin DOMAIN active_connections

C15_InvalidJsonNotFatal ==
    [][\A c \in ConnIds :
          RecvInvalidJson(c) =>
             /\ pc'[c] = "recv"
             /\ inflight' = inflight
             /\ EventsOf(events', c, "append") = <<>>
             /\ EventsOf(events', c, "drain") = <<>>
             /\ IF c \in DOMAIN active_connections'
                THEN /\ active_connections'[c] = active_connections[c]
                     /\ c \in websocket_connections'
                     /\ events' = <<Event("send", c, <<>>, "error", FALSE)>>
                ELSE /\ EventsOf(events', c, "send") = <<>>
                     /\ c \notin websocket_connections'
             /\ \A d \in DOMAIN active_connections \ {c} :
                   /\ d \in DOMAIN active_connections'
                   /\ active_connections'[d] = active_connections[d]]_vars

\* an error envelope has gone to a session that holds buffered speech and
\* whose receive loop is back at receive_text
C15_Witness ==
    \E c \in DOMAIN active_connections :
       /\ events = <<Event("send", c, <<>>, "error", FALSE)>>
       /\ pc[c] = "recv"
       /\ active_connections[c].audio_buffer # <<>>
       /\ active_connections[c].last_speech_time # None

\* C16: a send that fails (the websocket is found DISCONNECTED, or
\* send_text raises) removes the session from both dictionaries and delivers
\* nothing, the other sessions being left as they are; a send to an id that
\* has no websocket sends nothing and changes nothing.
C16_SendFailureDeregisters ==
    \A c \in ConnIds, cs \in ClientStates, ok \in BOOLEAN :
       LET r == send_websocket_message(Service, c, Envelope("error", FALSE), cs, ok)
       IN  IF c \in websocket_connections
           THEN (cs = "DISCONNECTED" \/ ~ok) =>
                   /\ c \notin r.ws
                   /\ c \notin DOMAIN r.ac
                   /\ EventsOf(r.out, c, "send") = <<>>
                   /\ r.ws = websocket_connections \ {c}
                   /\ \A d \in DOMAIN active_connections \ {c} :
                         d \in DOMAIN r.ac /\ r.ac[d] = active_connections[d]
           ELSE r = Service

\* a failed send has removed a session whose receive loop is still running,
\* and the relay of the watchdog's transcription to that session is to come
C16_Witness ==
    \E c \in ConnIds :
       /\ Removed(c)
       /\ pc[c] = "recv"
       /\ wd.pc = "asr"
       /\ wd.call.conn = c

\* C17: a broadcast that has ended has issued a send to every session that
\* was registered when it began and is still registered, and every session
\* whose send failed has been deregistered.
C17_BroadcastReachesAll ==
    broadcast.pc \in {"done", "raised"} =>
       /\ \A c \in broadcast.targets :
             c \in broadcast.attempted \/ c \notin websocket_connections
       /\ \A i \in 1..Len(broadcast.disconnected) :
             /\ broadcast.disconnected[i] \notin websocket_connections
             /\ broadcast.disconnected[i] \notin DOMAIN active_connections

\* C18: when transcribe_audio comes back, failed or not, the response is
\* relayed as one transcription_response envelope carrying its success field
\* and the awaiting task goes on; a failed transcription removes no session:
\* the session stays registered, its record untouched and its receive loop
\* running (only a transport that refuses the envelope deregisters).
C18_CollaboratorFailureRelayed ==
    [][/\ \A c \in ConnIds :
             (AsrReturn(c) \/ (WatchdogAsrReturn /\ wd.call.conn = c)) =>
                /\ AsrReturn(c) => pc'[c] = "recv"
                /\ pc'[c] # "closed" \/ pc[c] = "closed"
                /\ Len(EventsOf(events', c, "send")) <= 1
                /\ IF c \in websocket_connections /\ c \in DOMAIN active_connections'
                   THEN /\ Len(EventsOf(events', c, "send")) = 1
                        /\ EventsOf(events', c, "send")[1].tag = "transcription_response"
                        /\ c \in websocket_connections'
                        /\ active_connections'[c] = active_connections[c]
                   ELSE EventsOf(events', c, "send") = <<>>
       /\ \A i \in 1..Len(events') :
             (/\ events'[i].ev = "send"
              /\ events'[i].tag = "transcription_response"
              /\ ~events'[i].flag) =>
                /\ events'[i].conn \in DOMAIN active_connections'
                /\ events'[i].conn \in websocket_connections'
                /\ pc'[events'[i].conn] \in {"recv", "asr", "llm", "tts"}]_vars

\* a transcription_response with success false has been relayed to a session
\* that is registered and whose receive loop is at receive_text
C18_Witness ==
    \E i \in 1..Len(events) :
       /\ events[i].ev = "send"
       /\ events[i].tag = "transcription_response"
       /\ ~events[i].flag
       /\ events[i].conn \in DOMAIN active_connections
       /\ pc[events[i].conn] = "recv"

\* the sub-frames of the last chunk that the engine flagged as speech
FlaggedSpeech ==
    Cardinality({i \in 1..Len(classified.chunk.engine) :
                    classified.chunk.engine[i] = "speech"})

\* the last chunk reached the vote: it had samples and its energy was not
\* below noise_floor * adaptive_threshold_multiplier
PassedGate ==
    /\ classified.calls > 0
    /\ audio_service.vad
    /\ classified.chunk.nbytes > 0
    /\ classified.chunk.rms * adaptive_threshold_den
          >= audio_service.noise_floor * adaptive_threshold_num

\* C19: for a chunk that passes the energy gate has_speech is
\* (speechFrameCount / totalFrameCount >= speech_threshold) and
\* (speechFrameCount >= 2): of 5 sub-frames, 2 flagged give false and 3 give
\* true.
C19_VadDecision ==
    PassedGate =>
       LET total == Len(classified.chunk.engine)
       IN  /\ classified.has_speech
                <=> (/\ speech_threshold_den * FlaggedSpeech
                           >= speech_threshold_num * total
                     /\ FlaggedSpeech >= 2)
           /\ (total = 5 /\ FlaggedSpeech = 2) => ~classified.has_speech
           /\ (total = 5 /\ FlaggedSpeech = 3) => classified.has_speech

\* a chunk of 5 sub-frames with exactly 2 flagged as speech has passed the
\* gate and been classified as no speech
C19_Witness ==
    /\ PassedGate
    /\ Len(classified.chunk.engine) = 5
    /\ FlaggedSpeech = 2
    /\ ~classified.has_speech

\* C20: a chunk whose energy is below noise_floor *
\* adaptive_threshold_multiplier is classified as no speech without a call
\* of the engine on any sub-frame and without a change of the speech and
\* silence histories.
C20_EnergyGate ==
    [][(/\ classified'.calls = classified.calls + 1
        /\ audio_service'.vad
        /\ classified'.chunk.nbytes > 0
        /\ classified'.chunk.rms * adaptive_threshold_den
              < audio_service'.noise_floor * adaptive_threshold_num) =>
          /\ ~classified'.has_speech
          /\ classified'.invoked = 0
          /\ classified'.kept = <<>>
          /\ audio_service'.speech_frames = audio_service.speech_frames
          /\ audio_service'.silence_frames = audio_service.silence_frames]_vars

\* a chunk has been stopped at the gate after an earlier chunk had put
\* sub-frames into the histories
C20_Witness ==
    /\ classified.calls = 2
    /\ classified.gated
    /\ classified.invoked = 0
    /\ audio_service.speech_frames > 0
    /\ audio_service.silence_frames > 0

\* the sub-frames of the last chunk on which the engine raised
EngineErrors ==
    {i \in 1..Len(classified.chunk.engine) : classified.chunk.engine[i] = "error"}

\* C21: a sub-frame on which the engine raises is counted as speech in the
\* vote (it counts toward the speech count and the ratio) and is part of the
\* output, so engine errors alone never make a chunk be classified as no
\* speech.
C21_EngineErrorCountsAsSpeech ==
    PassedGate =>
       LET total == Len(classified.chunk.engine)
           counted == FlaggedSpeech + Cardinality(EngineErrors)
       IN  /\ classified.has_speech
                <=> (/\ speech_threshold_den * counted
                           >= speech_threshold_num * total
                     /\ counted >= 2)
           /\ classified.has_speech =>
                 \A i \in EngineErrors :
                    \E k \in 1..Len(classified.kept) : classified.kept[k] = i

\* C22: the noise-floor state is one instance per session: what
\* process_audio_chunk returns for a chunk of a session is what it returns
\* when the classifier has seen the chunks of that session alone, whatever
\* the other sessions sent before or between them.
C22_NoiseStatePerSession ==
    [][\A c \in ConnIds :
          (classified'.calls = classified.calls + 1 /\ classified'.conn = c) =>
             classified'.has_speech
                = process_audio_chunk(own_service[c], classified'.chunk).has_speech]_vars

\* C23 as stated: a buffer of 2,401 bytes is zero-padded to 2,402 bytes and
\* read as 1,201 samples, the last of which has the original trailing byte
\* as its high byte and zero as its low byte.
C23_PaddedSampleHighByte ==
    (converted.read /\ converted.input.nbytes = 2401) =>
       /\ converted.padded.nbytes = 2402
       /\ converted.audio_samples.count = 1201
       /\ HighByte(converted.audio_samples.last) = converted.input.tail[2]
       /\ LowByte(converted.audio_samples.last) = 0

\* C23: a buffer of odd length n (2,401) is zero-padded to n + 1 bytes
\* (2,402) and read as (n + 1) / 2 samples (1,201), the last of which has the
\* original trailing byte as its low byte and zero as its high byte; a buffer
\* of even length is read as it is.
C23_PaddedSampleLowByte ==
    converted.read =>
       LET n == converted.input.nbytes
       IN  IF n % 2 = 1
           THEN /\ converted.padded.nbytes = n + 1
                /\ converted.audio_samples.count = (n + 1) \div 2
                /\ n = 2401 => /\ converted.padded.nbytes = 2402
                               /\ converted.audio_samples.count = 1201
                /\ LowByte(converted.audio_samples.last)
                      = converted.input.tail[Len(converted.input.tail)]
                /\ HighByte(converted.audio_samples.last) = 0
           ELSE /\ converted.padded = converted.input
                /\ converted.audio_samples.count = n \div 2

\* a buffer of 2,401 bytes ending in the byte 128 has been read
C23_Witness ==
    /\ converted.read
    /\ converted.input.nbytes = 2401
    /\ converted.input.tail[2] = 128
    /\ converted.audio_samples.count = 1201
    /\ converted.audio_samples.last = 128

\* C24: the watchdog drains a session's buffer only if, at the moment of
\* draining, the buffer is non-empty and now - last_speech_time >=
\* speech_timeout; speech appended after the scan selected the session is
\* not drained by that tick before its own silence timeout has elapsed.
C24_WatchdogDrainsOnlyTimedOut ==
    [][\A i \in 1..Len(events') :
          (events'[i].ev = "drain" /\ events'[i].tag = "watchdog") =>
             LET c == events'[i].conn
             IN  /\ c \in DOMAIN active_connections
                 /\ active_connections[c].audio_buffer # <<>>
                 /\ active_connections[c].last_speech_time # None
                 /\ now - active_connections[c].last_speech_time
                       >= active_connections[c].speech_timeout]_vars

\* the drains of session c by _process_buffered_audio among the events evs
FlushesOf(evs, c) ==
    SelectSeq(evs, LAMBDA e : e.conn = c /\ e.ev = "drain" /\ e.tag # "request")

\* C25: for one session, no append and no other flush executes between a
\* flush's read of audio_buffer and its clearing of audio_buffer and
\* last_speech_time; an inline flush and a watchdog flush of the same
\* session never both drain the same buffer contents.  Step by step: a flush
\* takes the whole buffer as it stands (with what its own step appended
\* before it), is the only flush of the session in its step, and leaves the
\* buffer empty and the timestamp reset, so that no later flush finds what it
\* took.
C25_FlushReadsAndClearsAtOnce ==
    [][\A c \in ConnIds :
          FlushesOf(events', c) # <<>> =>
             /\ Len(FlushesOf(events', c)) = 1
             /\ FlushesOf(events', c)[1].audio
                   = Join(BufferOf(active_connections, c))
                        \o AudioOf(EventsOf(events', c, "append"))
             /\ c \in DOMAIN active_connections' =>
                   /\ active_connections'[c].audio_buffer = <<>>
                   /\ active_connections'[c].last_speech_time = None]_vars

\* an inline flush of a session is in flight in its receive task while a
\* watchdog flush of the same session is in flight too, each with its own blob
C25_Witness ==
    \E c \in ConnIds :
       /\ wd.pc = "asr"
       /\ wd.call.conn = c
       /\ pc[c] = "asr"
       /\ FlushesOf(events, c) # <<>>
       /\ FlushesOf(events, c)[1].tag \in {"silence", "max_duration"}
       /\ inflight[c] = FlushesOf(events, c)[1].audio
       /\ c \in DOMAIN active_connections
       /\ active_connections[c].audio_buffer = <<>>

\* C26: no insertion into or removal from the registry takes effect between
\* the start and the end of an iteration over it.  For broadcast_message:
\* while its loop over websocket_connections is under way (suspended in a
\* send_text) the dictionary stays as it is.
C26_RegistryStableDuringIteration ==
    [][(broadcast.pc = "sending" /\ broadcast'.pc = "sending") =>
          websocket_connections' = websocket_connections]_vars

\* C27: within one watchdog tick that selected two timed-out sessions A and
\* B, the drain and hand-off of B does not wait for the return of A's
\* transcription call: while the watchdog is suspended in the call for A, no
\* session of its selection is still waiting, undrained, for its turn.
C27_WatchdogFlushNotDelayed ==
    wd.pc = "asr" =>
       \A i \in 1..Len(wd.todo) :
          LET b == wd.todo[i]
          IN  ~(/\ b \in DOMAIN active_connections
                /\ active_connections[b].audio_buffer # <<>>
                /\ active_connections[b].last_speech_time # None
                /\ now - active_connections[b].last_speech_time
                      >= active_connections[b].speech_timeout)

\* C28: wherever another task can run, the audio a session has buffered is
\* shorter than max_buffer_duration: a speech append that brings the buffer
\* to max_buffer_duration or more is followed, in the same step, by a drain of
\* the whole buffer.
C28_BufferBelowMaxDuration ==
    [][\A c \in DOMAIN active_connections' :
          /\ get_audio_duration(Join(active_connections'[c].audio_buffer))
                < active_connections'[c].max_buffer_duration
          /\ LET whole == Join(BufferOf(active_connections, c))
                             \o AudioOf(EventsOf(events', c, "append"))
             IN  (/\ EventsOf(events', c, "append") # <<>>
                  /\ get_audio_duration(whole)
                        >= active_connections'[c].max_buffer_duration) =>
                    /\ FlushesOf(events', c) # <<>>
                    /\ FlushesOf(events', c)[1].audio = whole
                    /\ FlushesOf(events', c)[1].tag = "max_duration"
                    /\ active_connections'[c].audio_buffer = <<>>]_vars

\* a speech chunk has brought a session's buffer to max_buffer_duration and
\* the buffer has been drained with it
C28_Witness ==
    \E c \in DOMAIN active_connections :
       /\ EventsOf(events, c, "append") # <<>>
       /\ FlushesOf(events, c) # <<>>
       /\ FlushesOf(events, c)[1].tag = "max_duration"
       /\ get_audio_duration(FlushesOf(events, c)[1].audio) >= max_buffer_duration
       /\ active_connections[c].audio_buffer = <<>>

\* C29: a session's audio_buffer is non-empty only if its last_speech_time is
\* set (Accumulating); a session starts Idle on connect, with an empty buffer
\* and last_speech_time None; every flush by _process_buffered_audio returns
\* the session to Idle.
C29_SessionStates ==
    [][\A c \in ConnIds :
          c \in DOMAIN active_connections' =>
             /\ active_connections'[c].audio_buffer # <<>> =>
                   active_connections'[c].last_speech_time # None
             /\ (pc[c] = "init" /\ pc'[c] = "recv") =>
                   /\ active_connections'[c].audio_buffer = <<>>
                   /\ active_connections'[c].last_speech_time = None
             /\ FlushesOf(events', c) # <<>> =>
                   /\ active_connections'[c].audio_buffer = <<>>
                   /\ active_connections'[c].last_speech_time = None]_vars

\* a session is accumulating again, its timestamp set, while the blob of its
\* last flush is still with the transcription collaborator
C29_Witness ==
    \E c \in DOMAIN active_connections :
       /\ active_connections[c].audio_buffer # <<>>
       /\ active_connections[c].last_speech_time = now
       /\ wd.pc = "asr"
       /\ wd.call.conn = c
       /\ pc[c] = "recv"

\* session c handles an audio_chunk that carries no audio_data or that
\* process_audio_chunk returns as has_speech = False (which is also what it
\* returns when the classification raises, lines 196-198)
NonSpeechChunk(c) ==
    /\ Takes(c)
    /\ \E chunk \in ChunkInputs :
          /\ ~(chunk.has_data /\ chunk.has_speech)
          /\ Resume(c, handle_audio_chunk(Service, c, chunk.has_data,
                                          chunk.has_speech, chunk.frames, now))

\* the timestamp of session c in the dictionary ac (None when absent)
LastSpeechOf(ac, c) == IF c \in DOMAIN ac THEN ac[c].last_speech_time ELSE None

\* C30 as stated: a chunk classified has_speech = false, a chunk with empty
\* or missing audio_data and a chunk whose classification raised never
\* change the buffer contents or last_speech_time.
C30_NonSpeechChangesNothing ==
    [][\A c \in ConnIds :
          NonSpeechChunk(c) =>
             /\ BufferOf(active_connections', c) = BufferOf(active_connections, c)
             /\ LastSpeechOf(active_connections', c)
                   = LastSpeechOf(active_connections, c)]_vars

\* C30: a session's audio_buffer holds only audio that process_audio_chunk
\* returned with has_speech = true since the last drain.  A chunk classified
\* has_speech = false, a chunk with empty or missing audio_data and a chunk
\* whose classification raised are never appended and never advance
\* last_speech_time: they leave both as they are, except that a chunk without
\* speech arriving speech_timeout or more after the last speech flushes the
\* buffer (silence path), which empties it and resets last_speech_time.
C30_BufferHoldsSpeechOnly ==
    [][\A c \in ConnIds :
          /\ NonSpeechChunk(c) =>
                /\ EventsOf(events', c, "append") = <<>>
                /\ IF FlushesOf(events', c) = <<>>
                   THEN /\ BufferOf(active_connections', c)
                              = BufferOf(active_connections, c)
                        /\ LastSpeechOf(active_connections', c)
                              = LastSpeechOf(active_connections, c)
                   ELSE /\ FlushesOf(events', c)[1].tag = "silence"
                        /\ now - LastSpeechOf(active_connections, c) >= speech_timeout
                        /\ BufferOf(active_connections', c) = <<>>
                        /\ LastSpeechOf(active_connections', c) = None
          /\ \A i \in 1..Len(BufferOf(active_connections', c)) :
                \E f \in FrameCounts :
                   BufferOf(active_connections', c)[i] = processed_audio(f)
          /\ (/\ LastSpeechOf(active_connections', c) # None
              /\ LastSpeechOf(active_connections', c)
                    # LastSpeechOf(active_connections, c)) =>
                EventsOf(events', c, "append") # <<>>]_vars

\* a chunk without speech has flushed, by the silence path, a buffer that
\* held two speech chunks
C30_Witness ==
    \E c \in DOMAIN active_connections :
       /\ FlushesOf(events, c) # <<>>
       /\ FlushesOf(events, c)[1].tag = "silence"
       /\ Len(FlushesOf(events, c)[1].audio) = 2
       /\ EventsOf(events, c, "append") = <<>>
       /\ active_connections[c].audio_buffer = <<>>
       /\ active_connections[c].last_speech_time = None

\* the sub-frames of the last chunk, in order, whose engine outcome is in outcomes
FramesWith(outcomes) ==
    SelectSeq([i \in 1..Len(classified.chunk.engine) |-> i],
              LAMBDA i : classified.chunk.engine[i] \in outcomes)

\* C31 as stated: when process_audio_chunk returns has_speech = true, the
\* bytes it returns are the concatenation, in order, of only the sub-frames
\* the engine flagged as speech.
C31_ReturnsSpeechFramesOnly ==
    classified.has_speech => classified.kept = FramesWith({"speech"})

\* C31: when process_audio_chunk returns has_speech = true, the bytes it
\* returns are the concatenation, in order, of the sub-frames the engine
\* flagged as speech and of those on which it raised; sub-frames flagged as
\* silence are left out, so the chunk is not returned whole.
C31_ReturnsSpeechAndErrorFrames ==
    classified.has_speech =>
       /\ classified.kept = FramesWith({"speech", "error"})
       /\ \A k \in 1..Len(classified.kept) :
             classified.chunk.engine[classified.kept[k]] # "silence"
       /\ FramesWith({"silence"}) # <<>> =>
             Len(classified.kept) < Len(classified.chunk.engine)

\* a chunk with a silent and an errored sub-frame among its speech has been
\* returned as speech
C31_Witness ==
    /\ classified.has_speech
    /\ FramesWith({"silence"}) # <<>>
    /\ FramesWith({"error"}) # <<>>
    /\ Len(classified.kept) = 4

\* the last chunk's energy, as the call that classified it gave it to
\* _update_noise_floor
Classifies == classified'.calls = classified.calls + 1

\* the last max_noise_samples elements of a sequence
LastSamples(q) ==
    IF Len(q) > max_noise_samples
    THEN SubSeq(q, Len(q) - max_noise_samples + 1, Len(q))
    ELSE q

\* C32: an energy sample is admitted into the estimator's window if and only
\* if the speech history is empty or the silence history is longer than the
\* speech history; while speech is the more frequent no sample is admitted,
\* and once silence dominates again samples are admitted again.
C32_AdmissionRule ==
    [][Classifies =>
          IF \/ audio_service.speech_frames = 0
             \/ audio_service.silence_frames > audio_service.speech_frames
          THEN /\ audio_service'.noise_samples # <<>>
               /\ audio_service'.noise_samples[Len(audio_service'.noise_samples)]
                     = classified'.chunk.rms
               /\ Len(audio_service'.noise_samples)
                     = IF Len(audio_service.noise_samples) < max_noise_samples
                       THEN Len(audio_service.noise_samples) + 1
                       ELSE max_noise_samples
          ELSE /\ audio_service'.noise_samples = audio_service.noise_samples
               /\ audio_service'.noise_floor = audio_service.noise_floor]_vars

\* with speech in the history and silence dominating it again, a sample of
\* 300.0 has been admitted after the first
C32_Witness ==
    /\ classified.calls > 0
    /\ audio_service.speech_frames > 0
    /\ audio_service.silence_frames > audio_service.speech_frames
    /\ Len(audio_service.noise_samples) >= 2
    /\ audio_service.noise_samples[Len(audio_service.noise_samples)] = 300000
    /\ classified.chunk.rms = 300000

\* the element at index k (from 0) of sorted(q)
IsSortedAt(q, k, x) ==
    /\ \E j \in 1..Len(q) : q[j] = x
    /\ Cardinality({j \in 1..Len(q) : q[j] < x}) <= k
    /\ Cardinality({j \in 1..Len(q) : q[j] <= x}) > k

\* C33: after every _update_noise_floor call the window holds at most 100
\* energies, the most recently admitted ones in admission order, and the
\* estimate changes only on a call that admits a sample while the window
\* then holds at least 10, to 0.9 * previous + 0.1 * sorted(window)[len // 4].
C33_WindowAndEstimate ==
    [][Classifies =>
          LET before == audio_service.noise_samples
              window == audio_service'.noise_samples
              admitted == \/ audio_service.speech_frames = 0
                          \/ audio_service.silence_frames > audio_service.speech_frames
          IN  /\ Len(window) <= max_noise_samples
              /\ window = IF admitted
                          THEN LastSamples(before \o <<classified'.chunk.rms>>)
                          ELSE before
              /\ IF admitted /\ Len(window) >= 10
                 THEN \E x \in {window[j] : j \in 1..Len(window)} :
                         /\ IsSortedAt(window, Len(window) \div 4, x)
                         /\ audio_service'.noise_floor
                               = (9 * audio_service.noise_floor + x) \div 10
                 ELSE audio_service'.noise_floor = audio_service.noise_floor]_vars

\* a sample of 10.0 has been admitted into a window that was full of samples
\* of 1000.0, and the oldest of them has gone
C33_Witness ==
    /\ classified.calls > 0
    /\ Len(audio_service.noise_samples) = max_noise_samples
    /\ audio_service.noise_samples[max_noise_samples] = 10000
    /\ audio_service.noise_samples[1] = 1000000
    /\ classified.chunk.rms = 10000

\* C37: once the speech history has reached its cap of 100 entries,
\* _update_noise_floor admits no sample in any later call (the silence
\* history, capped at 100 too, is never the longer) and the noise floor stays
\* as it is.
C37_NoAdmissionAfterCap ==
    [][audio_service.speech_frames = max_frames =>
          /\ audio_service'.noise_samples = audio_service.noise_samples
          /\ audio_service'.noise_floor = audio_service.noise_floor
          /\ audio_service'.speech_frames = max_frames
          /\ audio_service'.silence_frames <= max_frames]_vars

\* both histories are at their cap and a chunk of loud noise has just been
\* voted on
C37_Witness ==
    /\ classified.calls >= 2
    /\ classified.invoked = 5
    /\ ~classified.has_speech
    /\ audio_service.speech_frames = max_frames
    /\ audio_service.silence_frames = max_frames
    /\ Len(audio_service.noise_samples) = 1

\* C34: wherever another task can run, active_connections and
\* websocket_connections hold the same session ids: connect inserts into
\* both and every removal (the receive loop's cleanup, a failed send, a
\* websocket found disconnected, the broadcast's cleanup) removes from both.
C34_RegistriesAgree ==
    DOMAIN active_connections = websocket_connections

\* a broadcast has run to its end and removed a session whose send failed,
\* while another session is still registered
C34_Witness ==
    /\ broadcast.pc = "done"
    /\ broadcast.disconnected # <<>>
    /\ \A i \in 1..Len(broadcast.disconnected) :
          /\ broadcast.disconnected[i] \notin websocket_connections
          /\ broadcast.disconnected[i] \notin DOMAIN active_connections
    /\ websocket_connections # {}

\* C35: once a session id has been removed from the registry no later
\* operation re-inserts an entry under it in either dictionary; the fallback
\* of handle_audio_chunk is not reached for a deregistered session whose
\* receive loop is still running.
C35_NoReinsertion ==
    [][\A c \in ConnIds :
          (pc[c] # "init" /\ c \notin DOMAIN active_connections) =>
             /\ c \notin DOMAIN active_connections'
             /\ c \notin websocket_connections']_vars

\* a failed send has deregistered a session while its receive loop, back at
\* receive_text, is still running
C35_Witness ==
    \E c \in ConnIds :
       /\ pc[c] = "recv"
       /\ c \notin DOMAIN active_connections
       /\ c \notin websocket_connections
       /\ \E d \in DOMAIN active_connections : d # c /\ pc[d] = "recv"
       /\ EventsOf(events, c, "send") = <<>>

\* the watchdog and the receive task of c each have a blob of session c with
\* the transcription collaborator
BothInFlight(c) ==
    /\ wd.pc = "asr"
    /\ wd.call.conn = c
    /\ pc[c] = "asr"
    /\ inflight[c] # <<>>

\* the watchdog never drains a session whose receive task has a blob in
\* flight (the buffer is empty and nothing is appended until that call
\* returns): of two blobs in flight the watchdog's was drained first
WatchdogDrainedFirst ==
    [][\A c \in ConnIds :
          (pc[c] = "asr" /\ pc'[c] = "asr") =>
             ~\E i \in 1..Len(events') :
                 /\ events'[i].ev = "drain"
                 /\ events'[i].conn = c
                 /\ events'[i].tag = "watchdog"]_vars

\* C36: for one session, transcription_response envelopes are relayed in the
\* order in which their blobs were drained, also when one blob was drained by
\* the watchdog and the next by an inline flush while the first collaborator
\* call was still in flight: with both in flight, the response to the
\* receive task's blob, drained second, is not relayed before the watchdog's.
C36_ResponsesInDrainOrder ==
    [][\A c \in ConnIds :
          (BothInFlight(c) /\ pc'[c] = "recv" /\ wd'.call = wd.call) =>
             ~\E i \in 1..Len(events') :
                 /\ events'[i].ev = "send"
                 /\ events'[i].conn = c
                 /\ events'[i].tag = "transcription_response"]_vars

\* C38: an on-demand transcription_request drains the whole buffer and
\* forwards it to the transcription collaborator, whatever its duration, when
\* the buffer is non-empty; when the buffer is empty it makes no
\* collaborator call and sends no envelope.
C38_OnDemandRequest ==
    [][\A c \in ConnIds :
          RecvTranscriptionRequest(c) =>
             LET whole == Join(BufferOf(active_connections, c))
             IN  IF BufferOf(active_connections, c) # <<>>
                 THEN /\ BufferOf(active_connections', c) = <<>>
                      /\ pc'[c] = "asr"
                      /\ inflight'[c] = whole
                 ELSE /\ pc'[c] = "recv"
                      /\ inflight'[c] = <<>>
                      /\ EventsOf(events', c, "send") = <<>>]_vars

\* C39: if the engine failed to initialise (vad is None) process_audio_chunk
\* returns has_speech = false for every chunk, so no session's buffer ever
\* becomes non-empty and no flush and no hand-off to the transcription
\* collaborator ever occurs.
C39_NoEngineNoSpeech ==
    ~audio_service.vad =>
       /\ ~classified.has_speech
       /\ classified.invoked = 0
       /\ \A c \in DOMAIN active_connections :
             /\ active_connections[c].audio_buffer = <<>>
             /\ active_connections[c].last_speech_time = None
       /\ \A c \in ConnIds : pc[c] # "asr" /\ inflight[c] = <<>>
       /\ wd.pc = "sleep"
       /\ wd.call = NoCall
       /\ \A i \in 1..Len(events) : events[i].ev \notin {"append", "drain"}

\* without an engine, a session has sent loud speech a second time and a
\* watchdog tick has passed
C39_Witness ==
    /\ ~audio_service.vad
    /\ classified.calls >= 2
    /\ classified.chunk = UniformChunk(1000000, "speech")
    /\ classified.conn \in DOMAIN active_connections
    /\ pc[classified.conn] = "recv"

====
